---- MODULE Spec2Model ----
(***************************************************************************)
(* HEBGraph: evaluation of a hierarchical behavior graph through the       *)
(* shared-frontier call graph (hebg/call_graph.py), the lazily built graph *)
(* of a Behavior (hebg/behavior.py) and the graph container                *)
(* (hebg/heb_graph.py).                                                    *)
(***************************************************************************)
EXTENDS Integers, Sequences, FiniteSets, TLC

\* Largest complexity drawn for a node whose fixture does not set one.
MaxComplexity == 2
\* Largest number of reads of Behavior.graph made from outside a call.
MaxAccesses == 2
\* The complexity of a node that is given none (default_node_complexity).
DefaultComplexity == 1
\* Largest number of calls of unroll_graph in one run.
MaxUnrolls == 2
\* Largest depth of nested _unroll_graph calls before the recursion limit.
MaxDepth == 4
MaxLearnings == 2
MaxListed == 3
\* Largest number of passes of the loop of cumulated_hebgraph_histogram.
MaxRounds == 4
\* Number of threads that read Behavior.graph.
MaxThreads == 2

NoInst == "-"
NoAction == "<None>"

Range(s) == {s[i] : i \in DOMAIN s}

(***************************************************************************)
(* Nodes (hebg/node.py).  A node is identified by its name; `inst` is the  *)
(* identity of a Behavior object (two Behavior objects of the same name    *)
(* are equal as nodes but own distinct graphs).                            *)
(***************************************************************************)
Node(name, node_type, complexity) ==
    [name |-> name, type |-> node_type, complexity |-> complexity,
     action |-> NoAction, relation |-> "", threshold |-> 0, item |-> "",
     inst |-> NoInst]

Action(action, name, complexity) ==
    [Node(name, "action", complexity) EXCEPT !.action = action]

FeatureCondition(name, complexity) == Node(name, "feature_condition", complexity)

EmptyNode(name, complexity) == Node(name, "empty", complexity)

Behavior(name, inst, complexity) ==
    [Node(name, "behavior", complexity) EXCEPT !.inst = inst]

\* tests/examples/feature_conditions.py
ThresholdFeatureCondition(name, relation, threshold, complexity) ==
    [FeatureCondition(name, complexity) EXCEPT !.relation = relation,
                                               !.threshold = threshold]

\* tests/examples/behaviors/loop_with_alternative.py
HasItem(item_name, name, complexity) ==
    [FeatureCondition(name, complexity) EXCEPT !.relation = "has",
                                               !.item = item_name]

\* A condition that answers the same index for every observation.
ConstantFeatureCondition(name, fc_index, complexity) ==
    [FeatureCondition(name, complexity) EXCEPT !.relation = "const",
                                               !.threshold = fc_index]

BoolToInt(b) == IF b THEN 1 ELSE 0

\* Conditions that compare strictly where the fixture compares ">=" or "<=".
FeatureConditionCall_Strict(node, obs) ==
    CASE node.relation \in {">=", ">"} -> BoolToInt(obs.x > node.threshold)
      [] node.relation \in {"<=", "<"} -> BoolToInt(obs.x < node.threshold)
      [] node.relation = "has" -> BoolToInt(node.item \in obs.items)
      [] OTHER -> node.threshold

\* int(node(observation)) for a FeatureCondition node.
FeatureConditionCall(node, obs) ==
    CASE node.relation = ">=" -> BoolToInt(obs.x >= node.threshold)
      [] node.relation = "<=" -> BoolToInt(obs.x <= node.threshold)
      [] node.relation = ">" -> BoolToInt(obs.x > node.threshold)
      [] node.relation = "<" -> BoolToInt(obs.x < node.threshold)
      [] node.relation = "has" -> BoolToInt(node.item \in obs.items)
      [] OTHER -> node.threshold

Number(x) == [x |-> x, items |-> {}]
Items(items) == [x |-> 0, items |-> items]

(***************************************************************************)
(* Graph container (hebg/heb_graph.py).  nodes and edges keep insertion    *)
(* order, as the networkx dictionaries do.                                 *)
(***************************************************************************)
EmptyRegistry == [n \in {} |-> NoInst]

HEBGraph(behavior) ==
    [behavior |-> behavior, all_behaviors |-> EmptyRegistry,
     nodes |-> <<>>, edges |-> <<>>]

HasNode(graph, name) == \E i \in DOMAIN graph.nodes : graph.nodes[i].name = name

add_node(graph, node) ==
    IF HasNode(graph, node.name) THEN graph
    ELSE [graph EXCEPT !.nodes = Append(@, node)]

add_edge(graph, u, v, index) ==
    LET g == add_node(add_node(graph, u), v)
        e == [u |-> u.name, v |-> v.name, index |-> index]
    IN  IF \E i \in DOMAIN g.edges : g.edges[i].u = u.name /\ g.edges[i].v = v.name
        THEN [g EXCEPT !.edges = [i \in DOMAIN g.edges |->
                 IF g.edges[i].u = u.name /\ g.edges[i].v = v.name THEN e ELSE g.edges[i]]]
        ELSE [g EXCEPT !.edges = Append(@, e)]

NodeNamed(graph, name) ==
    graph.nodes[CHOOSE i \in DOMAIN graph.nodes : graph.nodes[i].name = name]

\* graph.successors(node): node objects in the order their edges were added.
successors(graph, name) ==
    LET es == SelectSeq(graph.edges, LAMBDA e : e.u = name)
    IN  [i \in DOMAIN es |-> NodeNamed(graph, es[i].v)]

predecessors(graph, name) ==
    LET es == SelectSeq(graph.edges, LAMBDA e : e.v = name)
    IN  [i \in DOMAIN es |-> NodeNamed(graph, es[i].u)]

EdgeIndex(graph, u, v) ==
    graph.edges[CHOOSE i \in DOMAIN graph.edges :
                    graph.edges[i].u = u /\ graph.edges[i].v = v].index

get_roots(graph) ==
    SelectSeq(graph.nodes, LAMBDA n : Len(predecessors(graph, n.name)) = 0)

\* A selection that forgets the index: every successor of node.
get_successors_AnyIndex(graph, node, next_edge_index) ==
    LET succs == successors(graph, node.name)
    IN  IF Len(succs) = 0
        THEN [error |-> TRUE, nodes |-> <<>>]
        ELSE [error |-> FALSE, nodes |-> succs]

\* hebg.graph.get_successors_with_index: the successors of node on the edges
\* of the given index; "error" when there is none.
get_successors_with_index(graph, node, next_edge_index) ==
    LET succs == successors(graph, node.name)
        next_nodes == SelectSeq(succs,
            LAMBDA n : EdgeIndex(graph, node.name, n.name) = next_edge_index)
    IN  IF Len(next_nodes) = 0
        THEN [error |-> TRUE, nodes |-> <<>>]
        ELSE [error |-> FALSE, nodes |-> next_nodes]


(***************************************************************************)
(* Leveling (compute_levels), run once on every freshly built graph.       *)
(* A level of -1 stands for "no level yet".                                *)
(***************************************************************************)
NoLevel == 0 - 1

\* One call of _compute_level_dependencies: the levels after it and whether
\* the node got a level.
_compute_level_dependencies(graph, levels, name) ==
    LET preds == SelectSeq(graph.edges, LAMBDA e : e.v = name)
        indexes == {preds[i].index : i \in DOMAIN preds}
        level_list_wo_none(index) ==
            {levels[preds[i].u] : i \in {j \in DOMAIN preds :
                preds[j].index = index /\ levels[preds[j].u] # NoLevel}}
        MinOf(S) == CHOOSE x \in S : \A y \in S : x <= y
        MaxOf(S) == CHOOSE x \in S : \A y \in S : x >= y
    IN  IF Len(preds) = 0
        THEN [done |-> TRUE, levels |-> [levels EXCEPT ![name] = 0]]
        ELSE IF \E index \in indexes : level_list_wo_none(index) = {}
        THEN [done |-> FALSE, levels |-> levels]
        ELSE [done |-> TRUE, levels |-> [levels EXCEPT ![name] =
                 1 + MaxOf({MinOf(level_list_wo_none(index)) : index \in indexes})]]

\* The only element of a singleton set.  The passes below bind each
\* intermediate result as the element of a singleton, which is evaluated once.
The(S) == CHOOSE x \in S : TRUE

\* One pass of the inner loop over the nodes, from node number i on.
RECURSIVE LevelPass(_, _, _, _)
LevelPass(graph, levels, all_nodes_have_level, i) ==
    IF i > Len(graph.nodes) THEN [all |-> all_nodes_have_level, levels |-> levels]
    ELSE The({LevelPass(graph, r.levels, all_nodes_have_level /\ r.done, i + 1) :
              r \in {_compute_level_dependencies(graph, levels, graph.nodes[i].name)}})

RECURSIVE LevelRounds(_, _, _)
LevelRounds(graph, levels, rounds_left) ==
    The({IF r.all THEN [error |-> FALSE, levels |-> r.levels]
         ELSE IF rounds_left <= 1 THEN [error |-> TRUE, levels |-> r.levels]
         ELSE LevelRounds(graph, r.levels, rounds_left - 1) :
         r \in {LevelPass(graph, levels, TRUE, 1)}})

\* compute_levels: error is TRUE when it raises (a graph without nodes leaves
\* all_nodes_have_level unbound, a graph with a cycle cannot be leveled).
compute_levels(graph) ==
    LET names == {graph.nodes[i].name : i \in DOMAIN graph.nodes}
        none == [n \in names |-> NoLevel]
    IN  IF Len(graph.nodes) = 0 THEN [error |-> TRUE, levels |-> none]
        ELSE LevelRounds(graph, none, Len(graph.nodes))


(***************************************************************************)
(* Behavior libraries.  A library is what the embedding code builds before *)
(* a call: the Behavior objects (behaviors, by instance), what build_graph *)
(* returns for those that implement it (graphs), the Behavior the caller   *)
(* evaluates (root) and the observations tried (obs).  d gives the         *)
(* complexity of the nodes whose fixture does not set one.                 *)
(***************************************************************************)
WithRegistry(graph, all_behaviors) == [graph EXCEPT !.all_behaviors = all_behaviors]

Library(name, root, behaviors, graphs, obs, d) ==
    [name |-> name, root |-> root, behaviors |-> behaviors, graphs |-> graphs,
     obs |-> obs, defaults |-> d]

\* tests/examples/behaviors/loop_with_alternative.py
GatherWood_build_graph(d) ==
    LET has_axe == HasItem("axe", "Has axe ?", d.feature_condition)
        g1 == add_edge(HEBGraph("GatherWood"), has_axe,
                       Action("Punch tree", "action Punch tree", 2), 0)
        g2 == add_edge(g1, has_axe, Behavior("Get new axe", "ref Get new axe", d.behavior), 0)
    IN  add_edge(g2, has_axe, Action("Use axe on tree", "action Use axe on tree", d.action), 1)

GetNewAxe_build_graph(d) ==
    LET has_wood == HasItem("wood", "Has wood ?", d.feature_condition)
        g1 == add_edge(HEBGraph("GetNewAxe"), has_wood,
                       Behavior("Gather wood", "ref Gather wood", d.behavior), 0)
        g2 == add_edge(g1, has_wood,
                       Action("Summon axe out of thin air",
                              "action Summon axe out of thin air", 10), 0)
    IN  add_edge(g2, has_wood, Action("Craft axe", "action Craft axe", d.action), 1)

build_looping_behaviors(d, root) ==
    LET all_behaviors == ("Gather wood" :> "GatherWood") @@ ("Get new axe" :> "GetNewAxe")
    IN  Library("loop_with_alternative", root,
            ("GatherWood" :> Behavior("Gather wood", "GatherWood", d.behavior))
         @@ ("GetNewAxe" :> Behavior("Get new axe", "GetNewAxe", d.behavior))
         @@ ("ref Gather wood" :> Behavior("Gather wood", "ref Gather wood", d.behavior))
         @@ ("ref Get new axe" :> Behavior("Get new axe", "ref Get new axe", d.behavior)),
            ("GatherWood" :> WithRegistry(GatherWood_build_graph(d), all_behaviors))
         @@ ("GetNewAxe" :> WithRegistry(GetNewAxe_build_graph(d), all_behaviors)),
            {Items({}), Items({"wood"}), Items({"axe"})}, d)

\* A library of one Behavior whose graph names no other Behavior.
Single(name, graph, d, obs) ==
    Library(name, graph.behavior,
            (graph.behavior :> Behavior(name, graph.behavior, d.behavior)),
            (graph.behavior :> graph), obs, d)

\* tests/examples/behaviors/basic.py
F_A_Behavior(d) ==
    LET feature_condition ==
            ThresholdFeatureCondition("Greater or equal to 0 ?", ">=", 0, d.feature_condition)
        g1 == add_edge(HEBGraph("F_A"), feature_condition, Action("0", "action 0", d.action), 0)
    IN  add_edge(g1, feature_condition, Action("1", "action 1", d.action), 1)

F_F_A_Behavior(d) ==
    LET feature_condition_1 ==
            ThresholdFeatureCondition("Greater or equal to 0 ?", ">=", 0, d.feature_condition)
        feature_condition_2 ==
            ThresholdFeatureCondition("Lesser or equal to 1 ?", "<=", 1, d.feature_condition)
        feature_condition_3 ==
            ThresholdFeatureCondition("Greater or equal to -1 ?", ">=", 0 - 1, d.feature_condition)
        g1 == add_edge(HEBGraph("F_F_A"), feature_condition_1, feature_condition_2, 1)
        g2 == add_edge(g1, feature_condition_1, feature_condition_3, 0)
        g3 == add_edge(g2, feature_condition_2, Action("2", "action 2", d.action), 1)
        g4 == add_edge(g3, feature_condition_2, Action("3", "action 3", d.action), 0)
        g5 == add_edge(g4, feature_condition_3, Action("0", "action 0", d.action), 0)
    IN  add_edge(g5, feature_condition_3, Action("1", "action 1", d.action), 1)

\* tests/integration/test_basic_options_graphs.py
F_F_A_Option(d) ==
    LET feature_condition_1 == ThresholdFeatureCondition(">= 0 ?", ">=", 0, d.feature_condition)
        feature_condition_2 == ThresholdFeatureCondition("<= 1 ?", "<=", 1, d.feature_condition)
        feature_condition_3 == ThresholdFeatureCondition(">= -1 ?", ">=", 0 - 1, d.feature_condition)
        g1 == add_edge(HEBGraph("F_F_A_Option"), feature_condition_1, feature_condition_2, 1)
        g2 == add_edge(g1, feature_condition_1, feature_condition_3, 0)
        g3 == add_edge(g2, feature_condition_2, Action("0", "action 0", d.action), 0)
        g4 == add_edge(g3, feature_condition_2, Action("1", "action 1", d.action), 1)
        g5 == add_edge(g4, feature_condition_3, Action("2", "action 2", d.action), 0)
    IN  add_edge(g5, feature_condition_3, Action("3", "action 3", d.action), 1)

\* tests/test_behavior.py, TestCostBehavior.test_choose_root_of_lesser_cost
AAA_Behavior ==
    add_node(add_node(add_node(HEBGraph("AAA"),
        Action("0", "action 0", 2)),
        Action("EXPECTED", "action EXPECTED", 1)),
        Action("2", "action 2", 3))

\* tests/examples/behaviors/basic_empty.py (add_edge without index: index 1)
E_A_Behavior(d) ==
    add_edge(HEBGraph("E_A"), EmptyNode("empty", d.empty), Action("42", "action 42", d.action), 1)

E_F_A_Behavior(d) ==
    LET empty == EmptyNode("empty", d.empty)
        feature_condition ==
            ThresholdFeatureCondition("Greater or equal to 0 ?", ">=", 0, d.feature_condition)
        g1 == add_edge(HEBGraph("E_F_A"), empty, feature_condition, 1)
        g2 == add_edge(g1, feature_condition, Action("0", "action 0", d.action), 0)
    IN  add_edge(g2, feature_condition, Action("1", "action 1", d.action), 1)

F_E_A_Behavior(d) ==
    LET feature_condition ==
            ThresholdFeatureCondition("Greater or equal to 0 ?", ">=", 0, d.feature_condition)
        empty_0 == EmptyNode("empty_0", d.empty)
        empty_1 == EmptyNode("empty_1", d.empty)
        g1 == add_edge(HEBGraph("F_E_A"), feature_condition, empty_0, 1)
        g2 == add_edge(g1, feature_condition, empty_1, 0)
        g3 == add_edge(g2, empty_0, Action("0", "action 0", d.action), 1)
    IN  add_edge(g3, empty_1, Action("1", "action 1", d.action), 1)

E_E_A_Behavior(d) ==
    LET empty_0 == EmptyNode("empty_0", d.empty)
        empty_1 == EmptyNode("empty_1", d.empty)
        g1 == add_edge(HEBGraph("E_E_A"), empty_0, empty_1, 1)
    IN  add_edge(g1, empty_1, Action("0", "action 0", d.action), 1)

\* An Empty node with three successors on three edge indexes; the first is a
\* reference back to the behavior itself, the second costs more than the third.
E_BAA_Behavior(d) ==
    LET empty == EmptyNode("empty", d.empty)
        g1 == add_edge(HEBGraph("E_BAA"), empty, Behavior("E_BAA", "ref E_BAA", d.behavior), 0)
        g2 == add_edge(g1, empty, Action("dear", "action dear", d.action + 1), 1)
    IN  add_edge(g2, empty, Action("cheap", "action cheap", d.action), 2)

E_BAA(d) ==
    Library("E_BAA", "E_BAA",
            ("E_BAA" :> Behavior("E_BAA", "E_BAA", d.behavior))
         @@ ("ref E_BAA" :> Behavior("E_BAA", "ref E_BAA", d.behavior)),
            ("E_BAA" :> E_BAA_Behavior(d)), {Number(0)}, d)

\* tests/test_call_graph.py, TestCall.test_split_on_same_fc_index
F_AA_Behavior(d) ==
    LET feature_condition ==
            ThresholdFeatureCondition("Greater or equal to 0 ?", ">=", 0, d.feature_condition)
        g1 == add_edge(HEBGraph("F_AA"), feature_condition, Action("0", "action 0", 0), 1)
        g2 == add_edge(g1, feature_condition, Action("FORBIDDEN", "action FORBIDDEN", 2), 0)
    IN  add_edge(g2, feature_condition, Action("EXPECTED", "action EXPECTED", 1), 0)

\* tests/test_behavior.py, TestCostBehavior.test_not_path_of_least_cost: a
\* root Action of cost 1.5 beside a root condition of cost 1 that leads to
\* Actions of cost 1; the costs are doubled here to stay whole numbers.
AF_A_Behavior ==
    LET feature_condition ==
            ThresholdFeatureCondition("Greater or equal to 0 ?", ">=", 0, 2)
        g1 == add_node(HEBGraph("AF_A"), Action("0", "action 0", 3))
        g2 == add_edge(g1, feature_condition, Action("1", "action 1", 2), 1)
    IN  add_edge(g2, feature_condition, Action("2", "action 2", 2), 0)

\* tests/test_call_graph.py, TestCall.test_chain_behaviors (Dummy, whose
\* __call__ is a stub there, has a graph of one action here).
chain_behaviors(d) ==
    LET root == add_node(HEBGraph("RootBehavior"),
                         Behavior("SubBehavior", "ref SubBehavior", d.behavior))
        sub == add_node(HEBGraph("SubBehavior"), Behavior("Dummy", "Dummy", d.behavior))
        dummy == add_node(HEBGraph("Dummy"), Action("EXPECTED", "action EXPECTED", d.action))
    IN  Library("chain_behaviors", "RootBehavior",
            ("RootBehavior" :> Behavior("RootBehavior", "RootBehavior", d.behavior))
         @@ ("SubBehavior" :> Behavior("SubBehavior", "SubBehavior", d.behavior))
         @@ ("ref SubBehavior" :> Behavior("SubBehavior", "ref SubBehavior", d.behavior))
         @@ ("Dummy" :> Behavior("Dummy", "Dummy", d.behavior)),
            ("RootBehavior" :> WithRegistry(root, ("SubBehavior" :> "SubBehavior")))
         @@ ("SubBehavior" :> sub) @@ ("Dummy" :> dummy),
            {Number(0 - 1)}, d)

\* tests/test_call_graph.py, TestCall.test_multiple_call_to_same_fc: the same
\* condition at the root of a behavior and of the behavior below it.
multiple_call_to_same_fc(d) ==
    LET feature_condition ==
            ThresholdFeatureCondition("Greater or equal to 0 ?", ">=", 0, d.feature_condition)
        expected_action == Action("EXPECTED", "action EXPECTED", d.action)
        unexpected_action == Action("UNEXPECTED", "action UNEXPECTED", d.action)
        sub == add_edge(add_edge(HEBGraph("SubBehavior"),
                   feature_condition, expected_action, 1),
                   feature_condition, unexpected_action, 0)
        root == add_edge(add_edge(HEBGraph("RootBehavior"),
                   feature_condition, Behavior("SubBehavior", "SubBehavior", d.behavior), 1),
                   feature_condition, unexpected_action, 0)
    IN  Library("multiple_call_to_same_fc", "RootBehavior",
            ("RootBehavior" :> Behavior("RootBehavior", "RootBehavior", d.behavior))
         @@ ("SubBehavior" :> Behavior("SubBehavior", "SubBehavior", d.behavior)),
            ("RootBehavior" :> root) @@ ("SubBehavior" :> sub),
            {Number(0 - 1), Number(2)}, d)

\* A behavior whose graph is a reference to itself and nothing else.
self_loop(d) ==
    LET g == add_node(HEBGraph("Loop"), Behavior("Loop", "ref Loop", d.behavior))
    IN  Library("self_loop", "Loop",
            ("Loop" :> Behavior("Loop", "Loop", d.behavior))
         @@ ("ref Loop" :> Behavior("Loop", "ref Loop", d.behavior)),
            ("Loop" :> WithRegistry(g, ("Loop" :> "Loop"))),
            {Number(0)}, d)

\* Two behaviors whose graphs lead to each other and nowhere else.
mutual_loop(d) ==
    LET all_behaviors == ("Ping" :> "Ping") @@ ("Pong" :> "Pong")
        ping == add_edge(HEBGraph("Ping"), EmptyNode("empty", d.empty),
                         Behavior("Pong", "ref Pong", d.behavior), 1)
        fc == ThresholdFeatureCondition("Greater or equal to 0 ?", ">=", 0, d.feature_condition)
        pong == add_edge(add_edge(HEBGraph("Pong"), fc,
                                  Behavior("Ping", "ref Ping", d.behavior), 0),
                         fc, Behavior("Pong", "ref Pong", d.behavior), 1)
    IN  Library("mutual_loop", "Ping",
            ("Ping" :> Behavior("Ping", "Ping", d.behavior))
         @@ ("Pong" :> Behavior("Pong", "Pong", d.behavior))
         @@ ("ref Ping" :> Behavior("Ping", "ref Ping", d.behavior))
         @@ ("ref Pong" :> Behavior("Pong", "ref Pong", d.behavior)),
            ("Ping" :> WithRegistry(ping, all_behaviors))
         @@ ("Pong" :> WithRegistry(pong, all_behaviors)),
            {Number(0 - 1), Number(1)}, d)

\* A condition leading, on index 1, to a Behavior that neither builds a graph
\* nor is registered and to an action that costs more than it; on index 0, to
\* another such Behavior and to an action that costs less than it.
unresolved(d) ==
    LET fc == ThresholdFeatureCondition("Greater or equal to 0 ?", ">=", 0, d.feature_condition)
        g1 == add_edge(HEBGraph("Root"), fc, Behavior("Missing", "Missing", d.behavior), 1)
        g2 == add_edge(g1, fc, Action("other", "action other", MaxComplexity + 1), 1)
        g3 == add_edge(g2, fc, Action("cheap", "action cheap", 0), 0)
        g4 == add_edge(g3, fc, Behavior("Absent", "Absent", d.behavior), 0)
    IN  Library("unresolved", "Root",
            ("Root" :> Behavior("Root", "Root", d.behavior))
         @@ ("Missing" :> Behavior("Missing", "Missing", d.behavior))
         @@ ("Absent" :> Behavior("Absent", "Absent", d.behavior)),
            ("Root" :> g4), {Number(0 - 1), Number(1)}, d)

\* A behavior whose graph has a cycle of conditions, which compute_levels
\* cannot level.
cyclic_graph(d) ==
    LET fc1 == ThresholdFeatureCondition("Greater or equal to 0 ?", ">=", 0, d.feature_condition)
        fc2 == ThresholdFeatureCondition("Lesser or equal to 1 ?", "<=", 1, d.feature_condition)
        g1 == add_edge(HEBGraph("Cyclic"), fc1, fc2, 1)
        g2 == add_edge(g1, fc2, fc1, 1)
    IN  Single("cyclic_graph", add_edge(g2, fc1, Action("0", "action 0", d.action), 0),
               d, {Number(1)})

\* A root action next to a root condition that answers index 2 or 1 while
\* its edges carry the indexes 0 and 1.
invalid_index(d, fc_index) ==
    LET fc == ConstantFeatureCondition("Constant ?", fc_index, d.feature_condition)
        g1 == add_node(HEBGraph("Root"), Action("fallback", "action fallback", MaxComplexity + 1))
        g2 == add_edge(g1, fc, Action("0", "action 0", d.action), 0)
        g3 == add_edge(g2, fc, Action("1", "action 1", d.action), 1)
    IN  Single("invalid_index", g3, d, {Number(0)})

\* A Behavior node that builds its own graph while all_behaviors holds
\* another Behavior object of the same name.
registry_shadow(d) ==
    LET root == add_node(HEBGraph("Root"), Behavior("Sub", "own Sub", d.behavior))
        own == add_node(HEBGraph("own Sub"), Action("own", "action own", d.action))
        registered == add_node(HEBGraph("registered Sub"),
                               Action("registered", "action registered", d.action))
    IN  Library("registry_shadow", "Root",
            ("Root" :> Behavior("Root", "Root", d.behavior))
         @@ ("own Sub" :> Behavior("Sub", "own Sub", d.behavior))
         @@ ("registered Sub" :> Behavior("Sub", "registered Sub", d.behavior)),
            ("Root" :> WithRegistry(root, ("Sub" :> "registered Sub")))
         @@ ("own Sub" :> own) @@ ("registered Sub" :> registered),
            {Number(0)}, d)

Numbers == {Number(0 - 2), Number(0 - 1), Number(1), Number(2)}

Defaults ==
    [action : 1..MaxComplexity, feature_condition : 1..MaxComplexity,
     behavior : 1..MaxComplexity, empty : 1..MaxComplexity]

Libraries(d) ==
    { build_looping_behaviors(d, "GetNewAxe"),
      build_looping_behaviors(d, "GatherWood"),
      Single("F_A", F_A_Behavior(d), d, Numbers),
      Single("F_F_A", F_F_A_Behavior(d), d, Numbers),
      Single("F_F_A_Option", F_F_A_Option(d), d, Numbers),
      Single("AAA", AAA_Behavior, d, {Number(0)}),
      Single("E_A", E_A_Behavior(d), d, {Number(0)}),
      Single("E_F_A", E_F_A_Behavior(d), d, {Number(0 - 1), Number(1)}),
      Single("F_E_A", F_E_A_Behavior(d), d, {Number(0 - 1), Number(1)}),
      Single("E_E_A", E_E_A_Behavior(d), d, {Number(0)}),
      Single("F_AA", F_AA_Behavior(d), d, {Number(0 - 1), Number(1)}),
      Single("AF_A", AF_A_Behavior, d, {Number(0 - 1), Number(1)}),
      E_BAA(d), chain_behaviors(d), multiple_call_to_same_fc(d), self_loop(d), mutual_loop(d), unresolved(d),
      invalid_index(d, 1), invalid_index(d, 2), registry_shadow(d),
      cyclic_graph(d) }

(***************************************************************************)
(* Libraries that are unrolled.                                            *)
(***************************************************************************)
\* tests/examples/behaviors/loop.py
loop_GatherWood_build_graph(d) ==
    LET feature == FeatureCondition("Has an axe", d.feature_condition)
        g1 == add_edge(HEBGraph("GatherWood"), feature,
                       Action("Punch tree", "action Punch tree", d.action), 0)
        g2 == add_edge(g1, feature,
                       Behavior("Get new axe", "ref Get new axe", d.behavior), 0)
    IN  add_edge(g2, feature, Action("Use axe on tree", "action Use axe on tree", d.action), 1)

loop_GetNewAxe_build_graph(d) ==
    LET feature == FeatureCondition("Has wood", d.feature_condition)
        g1 == add_edge(HEBGraph("GetNewAxe"), feature,
                       Behavior("Gather wood", "ref Gather wood", d.behavior), 0)
    IN  add_edge(g1, feature, Action("Craft axe", "action Craft axe", d.action), 1)

loop_build_looping_behaviors(d, root) ==
    LET all_behaviors == ("Gather wood" :> "GatherWood") @@ ("Get new axe" :> "GetNewAxe")
    IN  Library("loop", root,
            ("GatherWood" :> Behavior("Gather wood", "GatherWood", d.behavior))
         @@ ("GetNewAxe" :> Behavior("Get new axe", "GetNewAxe", d.behavior))
         @@ ("ref Gather wood" :> Behavior("Gather wood", "ref Gather wood", d.behavior))
         @@ ("ref Get new axe" :> Behavior("Get new axe", "ref Get new axe", d.behavior)),
            ("GatherWood" :> WithRegistry(loop_GatherWood_build_graph(d), all_behaviors))
         @@ ("GetNewAxe" :> WithRegistry(loop_GetNewAxe_build_graph(d), all_behaviors)),
            {Number(0)}, d)

\* tests/examples/behaviors/report_example.py.  Every Behavior0() and
\* Behavior1() that a build_graph creates is an object of its own: inst is
\* the path of the object, "B2/B1/B0" for the Behavior0 in the graph of the
\* Behavior1 in the graph of Behavior2.
Behavior0_build_graph(inst) ==
    LET feature == FeatureCondition("feature 0", 1)
    IN  add_edge(add_edge(HEBGraph(inst), feature, Action(0, "action 0", 1), 0),
                 feature, Action(1, "action 1", 1), 1)

Behavior1_build_graph(inst, d) ==
    LET feature_1 == FeatureCondition("feature 1", 1)
        feature_2 == FeatureCondition("feature 2", 1)
        g1 == add_edge(HEBGraph(inst), feature_1,
                       Behavior("behavior 0", inst \o "/B0", d.behavior), 0)
        g2 == add_edge(g1, feature_1, feature_2, 1)
        g3 == add_edge(g2, feature_2, Action(0, "action 0", 1), 0)
    IN  add_edge(g3, feature_2, Action(2, "action 2", 1), 1)

Behavior2_build_graph(inst, d) ==
    LET feature_3 == FeatureCondition("feature 3", 1)
        feature_4 == FeatureCondition("feature 4", 1)
        feature_5 == FeatureCondition("feature 5", 1)
        g1 == add_edge(HEBGraph(inst), feature_3, feature_4, 0)
        g2 == add_edge(g1, feature_3, feature_5, 1)
        g3 == add_edge(g2, feature_4, Action(0, "action 0", 1), 0)
        g4 == add_edge(g3, feature_4, Behavior("behavior 1", inst \o "/B1", d.behavior), 1)
        g5 == add_edge(g4, feature_5, Behavior("behavior 1", inst \o "/B1", d.behavior), 0)
    IN  add_edge(g5, feature_5, Behavior("behavior 0", inst \o "/B0", d.behavior), 1)

report_example(d, root) ==
    Library("report_example", root,
            ("B0" :> Behavior("behavior 0", "B0", d.behavior))
         @@ ("B1" :> Behavior("behavior 1", "B1", d.behavior))
         @@ ("B2" :> Behavior("behavior 2", "B2", d.behavior))
         @@ ("B1/B0" :> Behavior("behavior 0", "B1/B0", d.behavior))
         @@ ("B2/B0" :> Behavior("behavior 0", "B2/B0", d.behavior))
         @@ ("B2/B1" :> Behavior("behavior 1", "B2/B1", d.behavior))
         @@ ("B2/B1/B0" :> Behavior("behavior 0", "B2/B1/B0", d.behavior)),
            ("B0" :> Behavior0_build_graph("B0"))
         @@ ("B1" :> Behavior1_build_graph("B1", d))
         @@ ("B2" :> Behavior2_build_graph("B2", d))
         @@ ("B1/B0" :> Behavior0_build_graph("B1/B0"))
         @@ ("B2/B0" :> Behavior0_build_graph("B2/B0"))
         @@ ("B2/B1" :> Behavior1_build_graph("B2/B1", d))
         @@ ("B2/B1/B0" :> Behavior0_build_graph("B2/B1/B0")),
            {Number(0)}, d)

\* A behavior that leads to a loop it is not part of: Outer needs Ping,
\* Ping and Pong need each other.
outer_loop(d) ==
    LET all_behaviors == ("Outer" :> "Outer") @@ ("Ping" :> "Ping") @@ ("Pong" :> "Pong")
        fc(name) == FeatureCondition(name, d.feature_condition)
        ref(name) == Behavior(name, "ref " \o name, d.behavior)
        act(name) == Action(name, "action " \o name, d.action)
        outer == add_edge(add_edge(HEBGraph("Outer"), fc("outer ?"), ref("Ping"), 0),
                          fc("outer ?"), act("out"), 1)
        ping == add_edge(add_edge(HEBGraph("Ping"), fc("ping ?"), ref("Pong"), 0),
                         fc("ping ?"), act("ping"), 1)
        pong == add_edge(add_edge(HEBGraph("Pong"), fc("pong ?"), ref("Ping"), 0),
                         fc("pong ?"), act("pong"), 1)
    IN  Library("outer_loop", "Outer",
            ("Outer" :> Behavior("Outer", "Outer", d.behavior))
         @@ ("Ping" :> Behavior("Ping", "Ping", d.behavior))
         @@ ("Pong" :> Behavior("Pong", "Pong", d.behavior))
         @@ ("ref Ping" :> ref("Ping")) @@ ("ref Pong" :> ref("Pong")),
            ("Outer" :> WithRegistry(outer, all_behaviors))
         @@ ("Ping" :> WithRegistry(ping, all_behaviors))
         @@ ("Pong" :> WithRegistry(pong, all_behaviors)),
            {Number(0)}, d)

\* A looping reference without a sibling of its own, met after a Behavior
\* node that has one: Root leads to Task (beside the action "instead"), Task
\* leads on index 0 to Step (beside the action "beside") and on index 1 to
\* Root alone.
second_branch(d) ==
    LET all_behaviors == ("Root" :> "Root") @@ ("Task" :> "Task") @@ ("Step" :> "Step")
        fc(name) == FeatureCondition(name, d.feature_condition)
        ref(name) == Behavior(name, "ref " \o name, d.behavior)
        act(name) == Action(name, "action " \o name, d.action)
        root == add_edge(add_edge(HEBGraph("Root"), fc("root ?"), ref("Task"), 0),
                         fc("root ?"), act("instead"), 0)
        task == add_edge(add_edge(add_edge(HEBGraph("Task"),
                         fc("task ?"), ref("Step"), 0),
                         fc("task ?"), act("beside"), 0),
                         fc("task ?"), ref("Root"), 1)
        step == add_node(HEBGraph("Step"), act("step"))
    IN  Library("second_branch", "Root",
            ("Root" :> Behavior("Root", "Root", d.behavior))
         @@ ("Task" :> Behavior("Task", "Task", d.behavior))
         @@ ("Step" :> Behavior("Step", "Step", d.behavior))
         @@ ("ref Root" :> ref("Root")) @@ ("ref Task" :> ref("Task"))
         @@ ("ref Step" :> ref("Step")),
            ("Root" :> WithRegistry(root, all_behaviors))
         @@ ("Task" :> WithRegistry(task, all_behaviors))
         @@ ("Step" :> WithRegistry(step, all_behaviors)),
            {Number(0)}, d)

\* tests/examples/behaviors/loop_without_alternative.py.  The indices False
\* and True of its edges are 0 and 1.
loop_without_alternative(d) ==
    LET all_behaviors == ("Reach forest" :> "ReachForest")
                      @@ ("Reach other zone" :> "ReachOtherZone")
                      @@ ("Reach meadow" :> "ReachMeadow")
        fc(name) == FeatureCondition(name, d.feature_condition)
        ref(name) == Behavior(name, "ref " \o name, d.behavior)
        act(name) == Action(name, "action " \o name, d.action)
        build(inst, fc1, ref1, fc2, ref2, action) ==
            add_edge(add_edge(add_edge(add_edge(HEBGraph(inst),
                fc(fc1), ref(ref1), 0), fc(fc1), act(action), 1),
                fc(fc2), ref(ref2), 0), fc(fc2), act(action), 1)
    IN  Library("loop_without_alternative", "ReachForest",
            ("ReachForest" :> Behavior("Reach forest", "ReachForest", d.behavior))
         @@ ("ReachOtherZone" :> Behavior("Reach other zone", "ReachOtherZone", d.behavior))
         @@ ("ReachMeadow" :> Behavior("Reach meadow", "ReachMeadow", d.behavior))
         @@ ("ref Reach forest" :> ref("Reach forest"))
         @@ ("ref Reach other zone" :> ref("Reach other zone"))
         @@ ("ref Reach meadow" :> ref("Reach meadow")),
            ("ReachForest" :> WithRegistry(
                build("ReachForest", "Is in other zone ?", "Reach other zone",
                      "Is in meadow ?", "Reach meadow", "> forest"), all_behaviors))
         @@ ("ReachOtherZone" :> WithRegistry(
                build("ReachOtherZone", "Is in forest ?", "Reach forest",
                      "Is in meadow ?", "Reach meadow", "> other zone"), all_behaviors))
         @@ ("ReachMeadow" :> WithRegistry(
                build("ReachMeadow", "Is in forest ?", "Reach forest",
                      "Is in other zone ?", "Reach other zone", "> meadow"), all_behaviors)),
            {Number(0)}, d)

DefaultComplexities ==
    [action |-> DefaultComplexity, feature_condition |-> DefaultComplexity,
     behavior |-> DefaultComplexity, empty |-> DefaultComplexity]

UnrollLibraries ==
    Libraries(DefaultComplexities)
    \cup { loop_build_looping_behaviors(DefaultComplexities, "GatherWood"),
           loop_build_looping_behaviors(DefaultComplexities, "GetNewAxe"),
           report_example(DefaultComplexities, "B0"),
           report_example(DefaultComplexities, "B1"),
           report_example(DefaultComplexities, "B2"),
           loop_without_alternative(DefaultComplexities),
           outer_loop(DefaultComplexities),
           second_branch(DefaultComplexities) }

\* A node reached on the same index from two nodes of different levels:
\* 'first ?' leads on index 1 to 'second ?' and on index 0 to 'shared ?',
\* 'second ?' leads on index 0 to 'shared ?' and on index 1 to an action,
\* 'shared ?' leads to two actions.
shared_successor(d) ==
    LET fc(name) == FeatureCondition(name, d.feature_condition)
        act(name) == Action(name, "action " \o name, d.action)
        g1 == add_edge(HEBGraph("shared_successor"), fc("first ?"), fc("second ?"), 1)
        g2 == add_edge(g1, fc("first ?"), fc("shared ?"), 0)
        g3 == add_edge(g2, fc("second ?"), fc("shared ?"), 0)
        g4 == add_edge(g3, fc("second ?"), act("other"), 1)
        g5 == add_edge(g4, fc("shared ?"), act("left"), 0)
    IN  Single("shared_successor", add_edge(g5, fc("shared ?"), act("right"), 1), d,
               {Number(0)})

\* Two successors on one index, the Behavior node first: the cheaper of the
\* two depends on the complexities.
cheapest_successor(d) ==
    LET fc(name) == FeatureCondition(name, d.feature_condition)
        act(name) == Action(name, "action " \o name, d.action)
        g1 == add_edge(HEBGraph("cheapest_successor"), fc("which ?"),
                       Behavior("Other", "ref Other", d.behavior), 0)
        g2 == add_edge(g1, fc("which ?"), act("same"), 0)
        g3 == add_edge(g2, fc("which ?"), EmptyNode("empty", d.empty), 1)
        graph == add_edge(g3, EmptyNode("empty", d.empty), act("after"), 0)
    IN  Library("cheapest_successor", "cheapest_successor",
            ("cheapest_successor" :> Behavior("cheapest_successor", "cheapest_successor",
                                             d.behavior))
         @@ ("ref Other" :> Behavior("Other", "ref Other", d.behavior)),
            ("cheapest_successor" :> graph), {Number(0)}, d)

\* Requirements that form a cycle with a way in: Alpha requires Beta and
\* Gamma, Beta requires Alpha, Gamma requires nothing.
requirement_loop(d) ==
    LET fc(name) == FeatureCondition(name, d.feature_condition)
        ref(name) == Behavior(name, "ref " \o name, d.behavior)
        act(name) == Action(name, "action " \o name, d.action)
        alpha == add_edge(add_edge(HEBGraph("Alpha"), fc("alpha ?"), ref("Beta"), 0),
                          fc("alpha ?"), ref("Gamma"), 1)
        beta == add_edge(add_edge(HEBGraph("Beta"), fc("beta ?"), ref("Alpha"), 0),
                         fc("beta ?"), act("beta"), 1)
        gamma == add_edge(add_edge(HEBGraph("Gamma"), fc("gamma ?"), act("gamma"), 0),
                          fc("gamma ?"), act("other"), 1)
    IN  Library("requirement_loop", "Alpha",
            ("Alpha" :> Behavior("Alpha", "Alpha", d.behavior))
         @@ ("Beta" :> Behavior("Beta", "Beta", d.behavior))
         @@ ("Gamma" :> Behavior("Gamma", "Gamma", d.behavior))
         @@ ("ref Alpha" :> ref("Alpha")) @@ ("ref Beta" :> ref("Beta"))
         @@ ("ref Gamma" :> ref("Gamma")),
            ("Alpha" :> alpha) @@ ("Beta" :> beta) @@ ("Gamma" :> gamma),
            {Number(0)}, d)

\* The libraries whose histograms and complexities are computed.
MetricsLibraries ==
    UNION {Libraries(d)
           \cup { loop_build_looping_behaviors(d, "GatherWood"),
                  report_example(d, "B2"),
                  shared_successor(d), cheapest_successor(d) } : d \in Defaults}

\* Behavior nodes beside the alternatives of an Empty node: 'one ?' and
\* 'two ?' lead on index 1 to the successor of the Empty node; 'Once' follows
\* 'one ?' only, 'Twice' follows both, 'Kept' follows neither.
cut_requirements(d) ==
    LET fc(name) == FeatureCondition(name, d.feature_condition)
        ref(name) == Behavior(name, "ref " \o name, d.behavior)
        shared == Action("shared", "action shared", d.action)
        empty == EmptyNode("empty", d.empty)
        g1 == add_edge(HEBGraph("Cut"), fc("root ?"), empty, 0)
        g2 == add_edge(g1, fc("root ?"), fc("one ?"), 1)
        g3 == add_edge(g2, fc("root ?"), fc("two ?"), 1)
        g4 == add_edge(g3, fc("root ?"), ref("Kept"), 2)
        g5 == add_edge(g4, empty, shared, 1)
        g6 == add_edge(g5, fc("one ?"), shared, 1)
        g7 == add_edge(g6, fc("one ?"), ref("Once"), 0)
        g8 == add_edge(g7, fc("one ?"), ref("Twice"), 0)
        g9 == add_edge(g8, fc("two ?"), shared, 1)
    IN  Library("cut_requirements", "Cut",
            ("Cut" :> Behavior("Cut", "Cut", d.behavior))
         @@ ("ref Kept" :> ref("Kept")) @@ ("ref Once" :> ref("Once"))
         @@ ("ref Twice" :> ref("Twice")),
            ("Cut" :> add_edge(g9, fc("two ?"), ref("Twice"), 0)), {Number(0)}, d)

\* A requirement that is met late: Second requires First, Third requires
\* Second and Late, and Late is no behavior of the list.
late_requirement(d) ==
    LET fc(name) == FeatureCondition(name, d.feature_condition)
        ref(name) == Behavior(name, "ref " \o name, d.behavior)
        act(name) == Action(name, "action " \o name, d.action)
        first == add_edge(add_edge(HEBGraph("First"), fc("first ?"), act("first"), 0),
                          fc("first ?"), act("other"), 1)
        second == add_edge(add_edge(HEBGraph("Second"), fc("second ?"), ref("First"), 0),
                           fc("second ?"), act("second"), 1)
        third == add_edge(add_edge(HEBGraph("Third"), fc("third ?"), ref("Second"), 0),
                          fc("third ?"), ref("Late"), 1)
    IN  Library("late_requirement", "Third",
            ("First" :> Behavior("First", "First", d.behavior))
         @@ ("Second" :> Behavior("Second", "Second", d.behavior))
         @@ ("Third" :> Behavior("Third", "Third", d.behavior))
         @@ ("ref First" :> ref("First")) @@ ("ref Second" :> ref("Second"))
         @@ ("ref Late" :> ref("Late")),
            ("First" :> first) @@ ("Second" :> second) @@ ("Third" :> third),
            {Number(0)}, d)

\* The libraries whose requirement graph is built.
RequirementLibraries ==
    Libraries(DefaultComplexities)
    \cup { loop_build_looping_behaviors(DefaultComplexities, "GatherWood"),
           report_example(DefaultComplexities, "B2"),
           loop_without_alternative(DefaultComplexities),
           requirement_loop(DefaultComplexities),
           cut_requirements(DefaultComplexities),
           late_requirement(DefaultComplexities) }

(***************************************************************************)
(* State.                                                                  *)
(***************************************************************************)
VARIABLES
    lib,          \* the behavior library of this run (fixed by Init)
    observation,  \* the observation of the call
    objects,      \* Behavior objects: _graph, and counts of build_graph / compute_levels calls
    call_graph,   \* the CallGraph of the call
    pc,           \* "idle", "calling", "returned", "raised"
    result,       \* the action returned, or the error raised
    heap,         \* graph storages, and the storage of each Behavior's cached graph
    unrolled,     \* the calls of unroll_graph made so far, and what the last one returned
    metrics,      \* the behaviors given to behaviors_histograms, what it returned, and
                  \* the last call of learning_complexity
    requirements  \* the behaviors given to build_requirement_graph, and what it returned

vars == <<lib, observation, objects, call_graph, pc, result, heap, unrolled, metrics,
          requirements>>

\* What an evaluation call leaves alone, and what an analysis of the graphs
\* (unrolling, histograms, requirements) leaves alone.
analysis_vars == <<heap, unrolled, metrics, requirements>>
call_vars == <<observation, objects, call_graph, pc, result>>

EmptyFcn == [x \in {} |-> 0]

Insts == DOMAIN lib.behaviors

(***************************************************************************)
(* Behavior.graph (hebg/behavior.py).  _graph[i] = 0 is None; otherwise it *)
(* is the number of the build_graph call that made the cached graph.       *)
(* build_calls and level_calls count the calls of build_graph and of       *)
(* compute_levels on the instance; n_accesses and last record the reads    *)
(* made from outside a call (history only).                                *)
(***************************************************************************)
NotImplementedError == "NotImplementedError"
LevelingError == "ValueError: Could not attribute levels to all nodes"
NoValidFrontiere == "ValueError: No valid frontiere left in call_graph"
InvalidIndex == "ValueError: index was not found as an edge index"
NoError == ""

Errors == {NotImplementedError, LevelingError, NoValidFrontiere, InvalidIndex}

Buildable(inst) == inst \in DOMAIN lib.graphs

\* A property without cache: every read builds and levels the graph again.
Behavior_graph_NoCache(o, inst) ==
    LET built == [o EXCEPT !.build_calls[inst] = @ + 1]
    IN  IF ~Buildable(inst)
        THEN [objects |-> built, error |-> NotImplementedError, graph |-> 0]
        ELSE LET cached == [built EXCEPT !._graph[inst] = built.build_calls[inst],
                                         !.level_calls[inst] = @ + 1]
             IN  IF compute_levels(lib.graphs[inst]).error
                 THEN [objects |-> cached, error |-> LevelingError, graph |-> 0]
                 ELSE [objects |-> cached, error |-> NoError,
                       graph |-> cached._graph[inst]]

\* The property Behavior.graph read on instance inst, from objects o.
Behavior_graph(o, inst) ==
    IF o._graph[inst] # 0
    THEN [objects |-> o, error |-> NoError, graph |-> o._graph[inst]]
    ELSE LET built == [o EXCEPT !.build_calls[inst] = @ + 1]
         IN  IF ~Buildable(inst)
             THEN [objects |-> built, error |-> NotImplementedError, graph |-> 0]
             ELSE LET cached == [built EXCEPT !._graph[inst] = built.build_calls[inst],
                                              !.level_calls[inst] = @ + 1]
                  IN  IF compute_levels(lib.graphs[inst]).error
                      THEN [objects |-> cached, error |-> LevelingError, graph |-> 0]
                      ELSE [objects |-> cached, error |-> NoError,
                            graph |-> cached._graph[inst]]

(***************************************************************************)
(* CallGraph (hebg/call_graph.py).  A call node is <<branch, rank>>.       *)
(* nodes[c].inserted numbers the call nodes in the order they entered the  *)
(* frontier (history only).                                                *)
(***************************************************************************)
CallNode(branch, rank) == <<branch, rank>>
Branch(c) == c[1]
Rank(c) == c[2]

UNEXPLORED == "unexplored"
CALLED == "called"
FAILURE == "failure"

CallGraph ==
    [nodes |-> EmptyFcn, edges |-> EmptyFcn, n_branches |-> 0, n_calls |-> 0,
     frontiere |-> <<>>, known_fc |-> EmptyFcn, current_node |-> CallNode(0, 0),
     n_inserted |-> 0, fc_calls |-> EmptyFcn]

cg_add_node(cg, call_node, heb_node, heb_graph) ==
    [cg EXCEPT !.nodes = (call_node :> [heb_node |-> heb_node, heb_graph |-> heb_graph,
                                         label |-> heb_node.name,
                                         inserted |-> cg.n_inserted]) @@ @]

cg_add_edge(cg, u, v, status) ==
    [cg EXCEPT !.edges = (<<u, v>> :> status) @@ @]

add_root(cg, heb_node, heb_graph) == cg_add_node(cg, cg.current_node, heb_node, heb_graph)

_update_edge_status(cg, start, end, status) ==
    [cg EXCEPT !.edges[<<start, end>>] = status]

_heb_node_from_call_node(cg, node) == cg.nodes[node].heb_node

\* The name lookup in all_behaviors of the graph a node was found in.
LookupByName(node, heb_graph) ==
    IF node.name \in DOMAIN lib.graphs[heb_graph].all_behaviors
    THEN lib.behaviors[lib.graphs[heb_graph].all_behaviors[node.name]]
    ELSE node

\* An extension that keeps every candidate on the branch of its parent.
RECURSIVE ExtendFrom_SameBranch(_, _, _, _, _)
ExtendFrom_SameBranch(cg, parent, nodes, heb_graph, i) ==
    IF i > Len(nodes) THEN cg
    ELSE LET call_node == CallNode(Branch(parent), Rank(parent) + 1)
             node == LookupByName(nodes[i], heb_graph)
             cg1 == [cg EXCEPT !.n_inserted = @ + 1]
             cg2 == cg_add_node(cg1, call_node, node, heb_graph)
             cg3 == cg_add_edge(cg2, parent, call_node, UNEXPLORED)
         IN  ExtendFrom_SameBranch([cg3 EXCEPT !.frontiere = Append(@, call_node)],
                                   parent, nodes, heb_graph, i + 1)

RECURSIVE ExtendFrom(_, _, _, _, _)
ExtendFrom(cg, parent, nodes, heb_graph, i) ==
    IF i > Len(nodes) THEN cg
    ELSE LET fresh == i > 1
             branch_id == IF fresh THEN cg.n_branches + 1 ELSE Branch(parent)
             call_node == CallNode(branch_id, Rank(parent) + 1)
             node == LookupByName(nodes[i], heb_graph)
             cg1 == [cg EXCEPT !.n_branches = IF fresh THEN @ + 1 ELSE @,
                               !.n_inserted = @ + 1]
             cg2 == cg_add_node(cg1, call_node, node, heb_graph)
             cg3 == cg_add_edge(cg2, parent, call_node, UNEXPLORED)
         IN  The({ExtendFrom(extended, parent, nodes, heb_graph, i + 1) :
                  extended \in {[cg3 EXCEPT !.frontiere = Append(@, call_node)]}})

_extend_frontiere(cg, nodes, heb_graph) ==
    ExtendFrom(cg, cg.current_node, nodes, heb_graph, 1)

\* HEBGraph.__call__ on the graph of instance inst, within a call graph: the
\* roots of the graph go to call_nodes, which starts by extending the
\* frontier with them.
HEBGraph_call(cg, inst) == _extend_frontiere(cg, get_roots(lib.graphs[inst]), inst)

\* An argmin that gives the last position of the least value.
argmin_LastLeast(values) ==
    CHOOSE i \in DOMAIN values :
        /\ \A j \in DOMAIN values : values[i] <= values[j]
        /\ \A j \in DOMAIN values : j > i => values[j] # values[i]

\* np.argmin: the first position of the least value.
argmin(values) ==
    CHOOSE i \in DOMAIN values :
        /\ \A j \in DOMAIN values : values[i] <= values[j]
        /\ \A j \in DOMAIN values : j < i => values[j] # values[i]

RemoveAt(s, i) == [j \in 1..(Len(s) - 1) |-> IF j < i THEN s[j] ELSE s[j + 1]]

RECURSIVE AncestorsFrom(_, _)
AncestorsFrom(cg, S) ==
    The({IF P \subseteq S THEN S
         ELSE The({AncestorsFrom(cg, T) : T \in {S \cup P}}) :
         P \in {{e[1] : e \in {e \in DOMAIN cg.edges : e[2] \in S}}}})

\* networkx.ancestors
ancestors(cg, call_node) == AncestorsFrom(cg, {call_node}) \ {call_node}

cg_predecessors(cg, call_node) == {e[1] : e \in {e \in DOMAIN cg.edges : e[2] = call_node}}

\* A frontier read as a queue: the oldest entry whatever its complexity.
PopPosition_Oldest(cg) == 1

\* The position frontiere.pop takes its entry from.
PopPosition(cg) ==
    argmin([i \in DOMAIN cg.frontiere |->
               _heb_node_from_call_node(cg, cg.frontiere[i]).complexity])

\* A test that takes every Behavior popped for a looping one.
IsLooping_AnyBehavior(cg, call_node) ==
    _heb_node_from_call_node(cg, call_node).type = "behavior"

\* The test of _pop_from_frontiere on the popped entry: a Behavior that is
\* equal (by name) to the node of one of its ancestors in the call graph.
IsLooping(cg, call_node) ==
    LET maybe_next_node == _heb_node_from_call_node(cg, call_node)
    IN  /\ maybe_next_node.type = "behavior"
        /\ \E a \in ancestors(cg, call_node) :
               _heb_node_from_call_node(cg, a).name = maybe_next_node.name

\* One round of the loop of _pop_from_frontiere: the entry popped, whether
\* it is dropped as a failure, and the call graph after the round.
PopRound(cg) ==
    LET i == PopPosition(cg)
        next_call_node == cg.frontiere[i]
        parent == CHOOSE p \in cg_predecessors(cg, next_call_node) : TRUE
        popped == [cg EXCEPT !.frontiere = RemoveAt(@, i)]
    IN  IF IsLooping(popped, next_call_node)
        THEN [failure |-> TRUE, call_node |-> next_call_node,
              cg |-> _update_edge_status(popped, parent, next_call_node, FAILURE)]
        ELSE [failure |-> FALSE, call_node |-> next_call_node,
              cg |-> [_update_edge_status(popped, parent, next_call_node, CALLED)
                         EXCEPT !.n_calls = @ + 1, !.current_node = next_call_node]]


(***************************************************************************)
(* The branches of the loop of CallGraph.call_nodes on the entry popped.   *)
(* Each gives the call graph after the branch and the error it raises.     *)
(***************************************************************************)
\* A condition that is evaluated whether or not its index is known.
KnownIndex_Never(cg, node) == FALSE

\* if node in self._known_fc (nodes are equal when their names are)
KnownIndex(cg, node) == node.name \in DOMAIN cg.known_fc

\* self._known_fc[node] = int(node(observation)); fc_calls counts the calls
\* of the condition (history only).
Evaluated(cg, node, next_edge_index) ==
    [cg EXCEPT !.known_fc = (node.name :> next_edge_index) @@ @,
               !.fc_calls = (node.name :> 1 + (IF node.name \in DOMAIN cg.fc_calls
                                               THEN cg.fc_calls[node.name] ELSE 0)) @@ @]

\* A condition branch that takes an index without edges for a dead end and
\* lets the loop go on.
FeatureConditionBranch_DeadEnd(cg, node, heb_graph, obs) ==
    LET known == KnownIndex(cg, node)
        next_edge_index == IF known THEN cg.known_fc[node.name]
                           ELSE FeatureConditionCall(node, obs)
        cg1 == IF known THEN cg
               ELSE Evaluated(cg, node, next_edge_index)
        next_nodes == get_successors_with_index(lib.graphs[heb_graph], node, next_edge_index)
    IN  [error |-> NoError, cg |-> _extend_frontiere(cg1, next_nodes.nodes, heb_graph)]

\* call_graph.py 70-77
FeatureConditionBranch(cg, node, heb_graph, obs) ==
    LET known == KnownIndex(cg, node)
        next_edge_index == IF known THEN cg.known_fc[node.name]
                           ELSE FeatureConditionCall(node, obs)
        cg1 == IF known THEN cg
               ELSE Evaluated(cg, node, next_edge_index)
        next_nodes == get_successors_with_index(lib.graphs[heb_graph], node, next_edge_index)
    IN  IF next_nodes.error
        THEN [error |-> InvalidIndex, cg |-> cg1]
        ELSE [error |-> NoError, cg |-> _extend_frontiere(cg1, next_nodes.nodes, heb_graph)]

\* An Empty branch that follows the first successor only.
EmptyBranch_FirstOnly(cg, node, heb_graph) ==
    [error |-> NoError,
     cg |-> _extend_frontiere(cg,
                SubSeq(successors(lib.graphs[heb_graph], node.name), 1, 1), heb_graph)]

\* call_graph.py 78-79
EmptyBranch(cg, node, heb_graph) ==
    [error |-> NoError,
     cg |-> _extend_frontiere(cg, successors(lib.graphs[heb_graph], node.name), heb_graph)]

\* A Behavior branch that takes a Behavior without graph for a dead end and
\* lets the loop go on.
BehaviorBranch_DeadEnd(cg, o, node, heb_graph) ==
    LET behavior == LookupByName(node, heb_graph)
        r == Behavior_graph(o, behavior.inst)
    IN  IF r.error # NoError
        THEN [error |-> NoError, cg |-> cg, objects |-> r.objects]
        ELSE [error |-> NoError, objects |-> r.objects,
              cg |-> HEBGraph_call(cg, behavior.inst)]

\* call_graph.py 63-67 with Behavior.__call__ and the nested HEBGraph.__call__,
\* which hands the roots of the behavior's graph to call_nodes of the same
\* call graph.
BehaviorBranch(cg, o, node, heb_graph) ==
    LET behavior == LookupByName(node, heb_graph)
        r == Behavior_graph(o, behavior.inst)
    IN  IF r.error # NoError
        THEN [error |-> r.error, cg |-> cg, objects |-> r.objects]
        ELSE [error |-> NoError, objects |-> r.objects,
              cg |-> HEBGraph_call(cg, behavior.inst)]

(***************************************************************************)
(* Unrolling (hebg/unrolling.py).  A graph object is a reference to a      *)
(* storage: copy(graph) makes a new object on the same storage (the copy   *)
(* is shallow, the networkx dictionaries are shared), compose_heb_graphs   *)
(* makes a new storage, and add_edge, remove_node and relabel_nodes with   *)
(* copy=False write into the storage they are given.                       *)
(*   heap.stores[s]      the nodes and edges kept in storage s             *)
(*   heap.graph_of[inst] the storage of inst._graph, 0 for None            *)
(*   heap.cuts           the looping nodes the current call of unroll_graph *)
(*                       has cut, in order (history only)                   *)
(* The parameter enclosing of the functions below is history too: the      *)
(* alternatives of the nearest branch point, on the path of nested graphs   *)
(* that leads to a node, at which the path has an alternative.             *)
(***************************************************************************)
BEHAVIOR_SEPARATOR == ">"

RecursionError == "RecursionError"
NetworkXError == "NetworkXError: the node is not in the graph"

\* None, where the code holds a graph object or None.
None == [behavior |-> NoInst, all_behaviors |-> EmptyRegistry, store |-> 0]

EmptyHeap == [stores |-> <<>>, graph_of |-> [i \in Insts |-> 0], cuts |-> <<>>]

GraphObject(graph, store) ==
    [behavior |-> graph.behavior, all_behaviors |-> graph.all_behaviors, store |-> store]

\* The graph a graph object stands for, as the container above keeps it.
Contents(h, graph) ==
    [behavior |-> graph.behavior, all_behaviors |-> graph.all_behaviors,
     nodes |-> h.stores[graph.store].nodes, edges |-> h.stores[graph.store].edges]

\* A write through a graph object into its storage.
Put(h, graph, g) ==
    [h EXCEPT !.stores[graph.store] = [nodes |-> g.nodes, edges |-> g.edges]]

\* A new storage holding g.
Alloc(h, g) ==
    [h EXCEPT !.stores = Append(@, [nodes |-> g.nodes, edges |-> g.edges])]

\* Behavior.graph while unrolling: the cached graph object, built on the
\* first read.
Behavior_graph_object(h, inst) ==
    IF h.graph_of[inst] # 0
    THEN [heap |-> h, error |-> NoError,
          graph |-> GraphObject(lib.graphs[inst], h.graph_of[inst])]
    ELSE IF ~Buildable(inst)
         THEN [heap |-> h, error |-> NotImplementedError, graph |-> None]
         ELSE LET built == [Alloc(h, lib.graphs[inst]) EXCEPT
                               !.graph_of[inst] = Len(h.stores) + 1]
              IN  IF compute_levels(lib.graphs[inst]).error
                  THEN [heap |-> built, error |-> LevelingError, graph |-> None]
                  ELSE [heap |-> built, error |-> NoError,
                        graph |-> GraphObject(lib.graphs[inst], Len(h.stores) + 1)]

in_edges(g, name) == SelectSeq(g.edges, LAMBDA e : e.v = name)
out_edges(g, name) == SelectSeq(g.edges, LAMBDA e : e.u = name)

remove_node(g, name) ==
    [g EXCEPT !.nodes = SelectSeq(@, LAMBDA n : n.name # name),
              !.edges = SelectSeq(@, LAMBDA e : e.u # name /\ e.v # name)]

RECURSIVE Concat(_)
Concat(seqs) == IF Len(seqs) = 0 THEN <<>> ELSE Head(seqs) \o Concat(Tail(seqs))

\* The alternatives of a Behavior node: the other successors of its
\* predecessors on the index of the edge that leads to it.
new_alternatives(g, node) ==
    LET ins == in_edges(g, node.name)
        others(e) == SelectSeq(out_edges(g, e.u),
                               LAMBDA a : a.index = e.index /\ a.v # node.name)
    IN  Concat([i \in DOMAIN ins |->
                   [j \in DOMAIN others(ins[i]) |-> NodeNamed(g, others(ins[i])[j].v)]])

\* graph.add_edge(u, v, index) for each (u, v, index) of es, in order.
RECURSIVE add_edges_from(_, _)
add_edges_from(g, es) ==
    IF Len(es) = 0 THEN g
    ELSE The({add_edges_from(added, Tail(es)) :
              added \in {add_edge(g, Head(es).u, Head(es).v, Head(es).index)}})

RECURSIVE add_nodes_from(_, _)
add_nodes_from(g, ns) ==
    IF Len(ns) = 0 THEN g
    ELSE The({add_nodes_from(added, Tail(ns)) : added \in {add_node(g, Head(ns))}})

\* The edges of g with the node objects at their ends.
EdgesWithNodes(g) ==
    [i \in DOMAIN g.edges |->
        [u |-> NodeNamed(g, g.edges[i].u), v |-> NodeNamed(g, g.edges[i].v),
         index |-> g.edges[i].index]]

compose_heb_graphs(graph_of_reference, other_graph) ==
    LET new_graph == [graph_of_reference EXCEPT !.nodes = <<>>, !.edges = <<>>]
        with_nodes == add_nodes_from(add_nodes_from(new_graph, graph_of_reference.nodes),
                                     other_graph.nodes)
    IN  add_edges_from(add_edges_from(with_nodes, EdgesWithNodes(graph_of_reference)),
                       EdgesWithNodes(other_graph))

\* rename, in _add_prefix_to_graph: a copy of the node under the prefixed name.
rename(node, prefix) == [node EXCEPT !.name = prefix \o node.name]

\* relabel_nodes(graph, rename, copy=False): every node of the storage is
\* replaced by its renamed copy, the edges follow.
_add_prefix_to_graph(g, prefix) ==
    [g EXCEPT !.nodes = [i \in DOMAIN g.nodes |-> rename(g.nodes[i], prefix)],
              !.edges = [i \in DOMAIN g.edges |->
                  [g.edges[i] EXCEPT !.u = rename([name |-> g.edges[i].u], prefix).name,
                                     !.v = rename([name |-> g.edges[i].v], prefix).name]]]

\* What the functions of the module return: the heap and the dictionary
\* _unrolled_behaviors as they leave them, the graph object (or None) and
\* the looping flag they return, or the error they raise.
Returned(h, memo, graph, is_looping) ==
    [heap |-> h, memo |-> memo, graph |-> graph, is_looping |-> is_looping,
     error |-> NoError]

Raised(h, memo, error) ==
    [heap |-> h, memo |-> memo, graph |-> None, is_looping |-> FALSE, error |-> error]

\* The edges that replace those into a node: one to each target for each
\* edge into the node, with the data of that edge.
Reattached(g, name, targets) ==
    LET ins == in_edges(g, name)
    IN  Concat([t \in DOMAIN targets |->
                   [i \in DOMAIN ins |->
                       [u |-> NodeNamed(g, ins[i].u), v |-> targets[t],
                        index |-> ins[i].index]]])

\* The same, target by target for each edge (the order of lines 143-145).
Rerooted(g, name, targets) ==
    LET ins == in_edges(g, name)
    IN  Concat([i \in DOMAIN ins |->
                   [t \in DOMAIN targets |->
                       [u |-> NodeNamed(g, ins[i].u), v |-> targets[t],
                        index |-> ins[i].index]]])

\* Look for name reference (lines 113-114).
NameReference(node, graph) ==
    IF node.name \in DOMAIN graph.all_behaviors
    THEN lib.behaviors[graph.all_behaviors[node.name]]
    ELSE node

\* The record of a cut (history): the graph it is made in, the node cut, the
\* edges that led to it, the alternatives the edges are re-attached to, the
\* alternatives of the nearest enclosing branch point, and the edges of the
\* graph after the cut.
CutMade(h, graph, name, before, after, _current_alternatives, enclosing) ==
    [h EXCEPT !.cuts = Append(@,
        [graph |-> lib.behaviors[graph.behavior].name, node |-> name,
         in_edges |-> {<<in_edges(before, name)[i].u, in_edges(before, name)[i].index>> :
                          i \in DOMAIN in_edges(before, name)},
         alternatives |-> {_current_alternatives[i].name : i \in DOMAIN _current_alternatives},
         enclosing |-> {enclosing[i].name : i \in DOMAIN enclosing},
         edges |-> {<<after.edges[i].u, after.edges[i].v, after.edges[i].index>> :
                       i \in DOMAIN after.edges}])]

RECURSIVE _unroll_graph(_, _, _, _, _, _, _, _)
RECURSIVE UnrollNodes(_, _, _, _, _, _, _, _, _, _, _, _)
RECURSIVE _unroll_behavior(_, _, _, _, _, _, _, _, _)
RECURSIVE _unrolled_behavior_graph(_, _, _, _, _, _, _, _)

\* A dictionary that is never consulted: every behavior is unrolled anew.
InProgress_Never(memo, name) == FALSE

\* behavior.name in _unrolled_behaviors
InProgress(memo, name) == name \in DOMAIN memo

_unrolled_behavior_graph(h, memo, behavior, add_prefix, cut_looping_alternatives, _current_alternatives, enclosing, depth) ==
    IF InProgress(memo, behavior.name)
    THEN Returned(h, memo, memo[behavior.name], memo[behavior.name] = None)
    ELSE The({IF g.error = NotImplementedError
              THEN Returned(g.heap, memo, None, FALSE)
              ELSE IF g.error # NoError
              THEN Raised(g.heap, memo, g.error)
              ELSE The({IF r.error # NoError THEN r
                        ELSE [r EXCEPT !.memo = (behavior.name :> r.graph) @@ r.memo] :
                        r \in {_unroll_graph(g.heap, memo, g.graph, add_prefix,
                                             cut_looping_alternatives,
                                             _current_alternatives, enclosing,
                                             depth + 1)}}) :
              g \in {Behavior_graph_object(h, behavior.inst)}})

\* The cut branch of _unroll_behavior (lines 124-131), r being what
\* _unrolled_behavior_graph returned.
CutBranch(r, graph, behavior, _current_alternatives, enclosing) ==
    IF Len(_current_alternatives) = 0
    THEN Returned(r.heap, r.memo, graph, r.is_looping)
    ELSE The({IF ~HasNode(g, behavior.name)
              THEN Raised(r.heap, r.memo, NetworkXError)
              ELSE The({Returned(CutMade(Put(r.heap, graph, cut), graph, behavior.name,
                                         g, cut, _current_alternatives, enclosing),
                                 r.memo, graph, FALSE) :
                        cut \in {remove_node(
                                     add_edges_from(g, Reattached(g, behavior.name,
                                                                  _current_alternatives)),
                                     behavior.name)}}) :
              g \in {Contents(r.heap, graph)}})

\* The replacement of the node by the unrolled graph of its behavior (lines
\* 136-148), r being what _unrolled_behavior_graph returned.
ReplaceByGraph(r, graph, behavior, add_prefix) ==
    The({The({The({IF ~HasNode(composed, behavior.name)
                   THEN Raised(h1, r.memo, NetworkXError)
                   ELSE Returned(
                            Alloc(h1, remove_node(
                                add_edges_from(composed,
                                    Rerooted(composed, behavior.name, get_roots(prefixed))),
                                behavior.name)),
                            r.memo, GraphObject(graph, Len(h1.stores) + 1), r.is_looping) :
                   composed \in {compose_heb_graphs(Contents(h1, graph), prefixed)}}) :
              h1 \in {Put(r.heap, r.graph, prefixed)}}) :
         prefixed \in {IF add_prefix /\ Len(Contents(r.heap, r.graph).nodes) > 1
                       THEN _add_prefix_to_graph(Contents(r.heap, r.graph),
                                behavior.name \o BEHAVIOR_SEPARATOR)
                       ELSE Contents(r.heap, r.graph)}})

_unroll_behavior(h, memo, graph, node, add_prefix, cut_looping_alternatives, _current_alternatives, enclosing, depth) ==
    The({The({IF r.error # NoError THEN r
              ELSE IF r.is_looping /\ cut_looping_alternatives
              THEN CutBranch(r, graph, behavior, _current_alternatives, enclosing)
              ELSE IF r.graph = None
              THEN Returned(r.heap, r.memo, graph, r.is_looping)
              ELSE ReplaceByGraph(r, graph, behavior, add_prefix) :
              r \in {_unrolled_behavior_graph(h, memo, behavior, add_prefix,
                                              cut_looping_alternatives,
                                              _current_alternatives, enclosing, depth)}}) :
         behavior \in {NameReference(node, graph)}})

\* The loop of _unroll_graph over list(unrolled_graph.nodes()), from its
\* i-th node on.
UnrollNodes(h, memo, graph, unrolled_graph, nodes, i, add_prefix, cut_looping_alternatives, _current_alternatives, enclosing, is_looping, depth) ==
    IF i > Len(nodes)
    THEN Returned(h, memo, unrolled_graph, is_looping)
    ELSE IF nodes[i].type # "behavior"
    THEN UnrollNodes(h, memo, graph, unrolled_graph, nodes, i + 1, add_prefix,
                     cut_looping_alternatives, _current_alternatives, enclosing,
                     is_looping, depth)
    ELSE IF ~HasNode(Contents(h, graph), nodes[i].name)
    THEN Raised(h, memo, NetworkXError)
    ELSE The({The({IF r.error # NoError THEN r
                   ELSE UnrollNodes(r.heap, r.memo, graph, r.graph, nodes, i + 1,
                            add_prefix, cut_looping_alternatives,
                            IF Len(found) > 0 THEN found ELSE _current_alternatives,
                            enclosing, is_looping \/ r.is_looping, depth) :
                   r \in {_unroll_behavior(h, memo, unrolled_graph, nodes[i], add_prefix,
                               cut_looping_alternatives,
                               IF Len(found) > 0 THEN found ELSE _current_alternatives,
                               IF Len(found) > 0 THEN found ELSE enclosing,
                               depth)}}) :
              found \in {new_alternatives(Contents(h, graph), nodes[i])}})

_unroll_graph(h, memo, graph, add_prefix, cut_looping_alternatives, _current_alternatives, enclosing, depth) ==
    IF depth > MaxDepth
    THEN Raised(h, memo, RecursionError)
    ELSE UnrollNodes(h, (lib.behaviors[graph.behavior].name :> None) @@ memo,
                     graph, graph, h.stores[graph.store].nodes, 1, add_prefix,
                     cut_looping_alternatives, _current_alternatives, enclosing, FALSE,
                     depth)

unroll_graph(h, graph, add_prefix, cut_looping_alternatives) ==
    _unroll_graph([h EXCEPT !.cuts = <<>>], [n \in {} |-> None], graph, add_prefix,
                  cut_looping_alternatives, <<>>, <<>>, 1)

\* No call of unroll_graph yet.  unrolled.is_looping keeps the flag that
\* _unroll_graph returns and unroll_graph drops (history only).
NoUnroll ==
    [n_calls |-> 0, input |-> None, add_prefix |-> FALSE,
     cut_looping_alternatives |-> FALSE, graph |-> None, is_looping |-> FALSE,
     error |-> NoError]

\* No call of unroll_graph yet: see above.  No call of behaviors_histograms,
\* of learning_complexity, of build_requirement_graph yet.
NoLearning ==
    [n_calls |-> 0, behavior |-> "", expected |-> FALSE, previous |-> <<>>,
     error |-> NoError, complexity |-> 0, saved |-> 0]

\* No call of cumulated_hebgraph_histogram yet.
NoCumulation ==
    [called |-> FALSE, done |-> FALSE, error |-> NoError, rounds |-> 0,
     histogram |-> <<>>, histograms |-> <<>>, behavior_iteration |-> <<>>]

NoMetrics ==
    [behaviors |-> <<>>, called |-> FALSE, error |-> NoError, histograms |-> <<>>,
     complexities |-> <<>>, learning |-> NoLearning, cumulation |-> NoCumulation]

NoRequirements ==
    [behaviors |-> <<>>, called |-> FALSE, error |-> NoError,
     graph |-> HEBGraph(NoInst), levels |-> <<>>]

(***************************************************************************)
(* Histograms of used nodes (hebg/metrics/histograms.py).  A dictionary    *)
(* keyed by nodes is the sequence of its entries in insertion order; two   *)
(* keys are the same when their names are (Node.__eq__, Node.__hash__).    *)
(* A dictionary that is only looked up is a function of the names.         *)
(***************************************************************************)
KeyError == "KeyError"
ValueError == "ValueError: unknown node type"

\* np.inf: larger than any sum of complexities, and absorbing.
inf == 1000

Plus(a, b) == IF a = inf \/ b = inf THEN inf ELSE a + b

EmptyDict == [n \in {} |-> 0]

HasKey(dict, name) == \E i \in DOMAIN dict : dict[i].node.name = name

ValueOf(dict, name) ==
    dict[CHOOSE i \in DOMAIN dict : dict[i].node.name = name].n

Keys(dict) == {dict[i].node.name : i \in DOMAIN dict}

\* update_sum_dict(dict1, dict2) (metrics/complexity/utils.py)
RECURSIVE update_sum_dict(_, _)
update_sum_dict(dict1, dict2) ==
    IF Len(dict2) = 0 THEN dict1
    ELSE LET key == Head(dict2).node.name
             val == Head(dict2).n
         IN  update_sum_dict(
                 IF HasKey(dict1, key)
                 THEN [i \in DOMAIN dict1 |->
                          IF dict1[i].node.name = key
                          THEN [dict1[i] EXCEPT !.n = @ + val] ELSE dict1[i]]
                 ELSE Append(dict1, Head(dict2)),
                 Tail(dict2))

\* graph.graph["depth"] and graph.graph["nodes_by_level"][level]
\* (get_nodes_by_level), from the levels compute_levels gave.
graph_depth(graph, levels) ==
    CHOOSE l \in {levels[n] : n \in DOMAIN levels} :
        \A n \in DOMAIN levels : levels[n] <= l

nodes_by_level(graph, levels, level) ==
    SelectSeq(graph.nodes, LAMBDA n : levels[n.name] = level)

\* The nodes in the order of the two loops of lines 228-229.
RECURSIVE DeepestFirst(_, _, _)
DeepestFirst(graph, levels, level) ==
    IF level < 0 THEN <<>>
    ELSE nodes_by_level(graph, levels, level) \o DeepestFirst(graph, levels, level - 1)

\* _successors_by_index: the indexes in the order they are met, and for each
\* the successors of that index; KeyError when a successor has no
\* complexity yet.
RECURSIVE IndexesMet(_, _)
IndexesMet(es, met) ==
    IF Len(es) = 0 THEN met
    ELSE IndexesMet(Tail(es),
                    IF \E i \in DOMAIN met : met[i] = Head(es).index
                    THEN met ELSE Append(met, Head(es).index))

_successors_by_index(graph, node, complexities) ==
    LET es == out_edges(graph, node.name)
        indexes == IndexesMet(es, <<>>)
        group(index) == SelectSeq(es, LAMBDA e : e.index = index)
    IN  IF \E i \in DOMAIN es : es[i].v \notin DOMAIN complexities
        THEN [error |-> KeyError, succ_by_index |-> <<>>, complexities_by_index |-> <<>>]
        ELSE [error |-> NoError,
              succ_by_index |->
                  [k \in DOMAIN indexes |->
                      [j \in DOMAIN group(indexes[k]) |-> group(indexes[k])[j].v]],
              complexities_by_index |->
                  [k \in DOMAIN indexes |->
                      [j \in DOMAIN group(indexes[k]) |->
                          complexities[group(indexes[k])[j].v]]]]

_get_node_histogram_complexity(node, behaviors_in_search) ==
    IF node.type = "behavior" /\ node.name \in behaviors_in_search
    THEN [error |-> NoError, histogram |-> <<>>, complexity |-> inf]
    ELSE IF node.type \in {"action", "feature_condition", "behavior"}
    THEN [error |-> NoError, histogram |-> <<[node |-> node, n |-> 1]>>,
          complexity |-> node.complexity]
    ELSE IF node.type = "empty"
    THEN [error |-> NoError, histogram |-> <<>>, complexity |-> 0]
    ELSE [error |-> ValueError, histogram |-> <<>>, complexity |-> 0]

\* Lines 237-243: the indexes from the k-th on.
RECURSIVE BestSuccessors(_, _, _, _, _)
BestSuccessors(by_index, nodes_used_nodes, k, node_used_nodes, node_complexity) ==
    IF k > Len(by_index.succ_by_index)
    THEN [histogram |-> node_used_nodes, complexity |-> node_complexity]
    ELSE LET values == by_index.complexities_by_index[k]
             min_index == argmin(values)
             choosen_succ == by_index.succ_by_index[k][min_index]
         IN  BestSuccessors(by_index, nodes_used_nodes, k + 1,
                            update_sum_dict(node_used_nodes, nodes_used_nodes[choosen_succ]),
                            Plus(node_complexity, values[min_index]))

\* The body of the loops of lines 228-258, from the i-th node of the order.
RECURSIVE HistogramNodes(_, _, _, _, _, _)
HistogramNodes(graph, order, i, behaviors_in_search, complexities, nodes_used_nodes) ==
    IF i > Len(order)
    THEN [error |-> NoError, complexities |-> complexities,
          nodes_used_nodes |-> nodes_used_nodes]
    ELSE LET node == order[i]
             by_index == _successors_by_index(graph, node, complexities)
             best == BestSuccessors(by_index, nodes_used_nodes, 1, <<>>, 0)
             only == _get_node_histogram_complexity(node, behaviors_in_search)
         IN  IF by_index.error # NoError
             THEN [error |-> by_index.error, complexities |-> complexities,
                   nodes_used_nodes |-> nodes_used_nodes]
             ELSE IF only.error # NoError
             THEN [error |-> only.error, complexities |-> complexities,
                   nodes_used_nodes |-> nodes_used_nodes]
             ELSE The({HistogramNodes(graph, order, i + 1, behaviors_in_search,
                                      (node.name :> c) @@ complexities,
                                      (node.name :> u) @@ nodes_used_nodes) :
                       c \in {Plus(best.complexity, only.complexity)},
                       u \in {update_sum_dict(best.histogram, only.histogram)}})

\* nodes_histograms_and_complexities(graph), levels being those of the graph.
nodes_histograms_and_complexities(graph, levels) ==
    LET simple == {i \in DOMAIN graph.nodes :
                      graph.nodes[i].type \in {"action", "feature_condition"}}
        names == {graph.nodes[i].name : i \in simple}
        complexities == [n \in names |-> NodeNamed(graph, n).complexity]
        nodes_used_nodes == [n \in names |-> <<[node |-> NodeNamed(graph, n), n |-> 1]>>]
    IN  HistogramNodes(graph, DeepestFirst(graph, levels, graph_depth(graph, levels)), 1,
                       {lib.behaviors[graph.behavior].name}, complexities,
                       nodes_used_nodes)

\* hebgraph_histogram_and_complexity: those of the first node of level 0.
hebgraph_histogram_and_complexity(graph, levels) ==
    LET r == nodes_histograms_and_complexities(graph, levels)
        root == nodes_by_level(graph, levels, 0)[1]
    IN  IF r.error # NoError
        THEN [error |-> r.error, histogram |-> <<>>, complexity |-> 0]
        ELSE [error |-> NoError, histogram |-> r.nodes_used_nodes[root.name],
              complexity |-> r.complexities[root.name]]

\* behaviors_histograms_and_complexites(behaviors): the loop from the i-th
\* behavior on.  A behavior without graph is skipped; any other error of
\* behavior.graph or of the computation is raised.
RECURSIVE behaviors_histograms_and_complexites(_, _, _, _)
behaviors_histograms_and_complexites(behaviors, i, histograms, complexities) ==
    IF i > Len(behaviors)
    THEN [error |-> NoError, histograms |-> histograms, complexities |-> complexities]
    ELSE LET behavior == lib.behaviors[behaviors[i]]
             graph == lib.graphs[behavior.inst]
             leveled == compute_levels(graph)
             r == hebgraph_histogram_and_complexity(graph, leveled.levels)
         IN  IF ~Buildable(behavior.inst)
             THEN behaviors_histograms_and_complexites(behaviors, i + 1, histograms,
                                                       complexities)
             ELSE IF leveled.error
             THEN [error |-> LevelingError, histograms |-> histograms,
                   complexities |-> complexities]
             ELSE IF r.error # NoError
             THEN [error |-> r.error, histograms |-> histograms,
                   complexities |-> complexities]
             ELSE behaviors_histograms_and_complexites(behaviors, i + 1,
                      (behavior.name :> r.histogram) @@ histograms,
                      (behavior.name :> r.complexity) @@ complexities)

(***************************************************************************)
(* Cumulated histogram (hebg/metrics/histograms.py, lines 92-192).         *)
(* histograms and behavior_iteration are keyed by behaviors: functions of  *)
(* their names.                                                            *)
(***************************************************************************)
\* [node for node in histogram if isinstance(node, Behavior)]
BehaviorsIn(histogram) ==
    LET entries == SelectSeq(histogram, LAMBDA e : e.node.type = "behavior")
    IN  [i \in DOMAIN entries |-> entries[i].node]

\* graph.all_behaviors[behavior.name] when the name is registered.
Registered(graph, node) ==
    IF node.name \in DOMAIN graph.all_behaviors
    THEN graph.all_behaviors[node.name]
    ELSE node.inst

IterationOf(behavior_iteration, name) ==
    IF name \in DOMAIN behavior_iteration THEN behavior_iteration[name] ELSE 0

\* histograms[behavior].pop(behavior)
PopKey(dict, name) == SelectSeq(dict, LAMBDA e : e.node.name # name)

\* for _ in range(n_used): histogram = update_sum_dict(histogram, sub)
RECURSIVE SumTimes(_, _, _)
SumTimes(histogram, sub, n_used) ==
    IF n_used = 0 THEN histogram
    ELSE The({SumTimes(h, sub, n_used - 1) : h \in {update_sum_dict(histogram, sub)}})

\* The histogram of a behavior that has none yet (lines 172-184).
SubHistogram(graph, node) ==
    LET inst == Registered(graph, node)
    IN  IF ~Buildable(inst)
        THEN [error |-> NotImplementedError, histogram |-> <<>>]
        ELSE The({IF leveled.error
                  THEN [error |-> LevelingError, histogram |-> <<>>]
                  ELSE The({[error |-> r.error, histogram |-> r.histogram] :
                            r \in {hebgraph_histogram_and_complexity(lib.graphs[inst],
                                                                    leveled.levels)}}) :
                  leveled \in {compute_levels(lib.graphs[inst])}})

\* _iterate_cumulation: the loop over behaviors, from the i-th on; c holds
\* histogram, histograms and behavior_iteration.
RECURSIVE _iterate_cumulation(_, _, _, _)
_iterate_cumulation(graph, behaviors, i, c) ==
    IF i > Len(behaviors) THEN c
    ELSE LET node == behaviors[i]
             n_used == ValueOf(c.histogram, node.name)
                           - IterationOf(c.behavior_iteration, node.name)
             name == IF node.name \in DOMAIN c.histograms THEN node.name
                     ELSE lib.behaviors[Registered(graph, node)].name
             counted(k) == (name :> IterationOf(c.behavior_iteration, name) + k)
                               @@ c.behavior_iteration
             expanded(sub) ==
                 IF sub.error = NotImplementedError
                 THEN [c EXCEPT !.behavior_iteration = counted(1)]
                 ELSE IF sub.error # NoError
                 THEN [c EXCEPT !.error = sub.error]
                 ELSE [c EXCEPT
                          !.histogram = SumTimes(@, PopKey(sub.histogram, name), n_used),
                          !.histograms = (name :> PopKey(sub.histogram, name)) @@ @,
                          !.behavior_iteration = counted(n_used)]
         IN  IF n_used <= 0
             THEN _iterate_cumulation(graph, behaviors, i + 1, c)
             ELSE The({IF next.error # NoError THEN next
                       ELSE _iterate_cumulation(graph, behaviors, i + 1, next) :
                       next \in {The({expanded(sub) :
                           sub \in {IF node.name \in DOMAIN c.histograms
                                    THEN [error |-> NoError,
                                          histogram |-> c.histograms[node.name]]
                                    ELSE SubHistogram(graph, node)}})}})

\* The stopping condition (lines 133-138).
IteratedEnough(histogram, behavior_iteration) ==
    LET behaviors == BehaviorsIn(histogram)
    IN  /\ \A i \in DOMAIN behaviors : behaviors[i].name \in DOMAIN behavior_iteration
        /\ \A i \in DOMAIN behaviors :
               behavior_iteration[behaviors[i].name] = ValueOf(histogram, behaviors[i].name)

\* cumulated_hebgraph_histogram up to its loop (lines 107-119).
CumulationStart(graph) ==
    The({IF first.error # NoError
         THEN [NoCumulation EXCEPT !.called = TRUE, !.error = first.error]
         ELSE The({[NoCumulation EXCEPT
                       !.called = TRUE, !.error = subs.error,
                       !.histogram = first.histogram,
                       !.histograms = IF subs.error = NoError THEN subs.histograms
                                      ELSE <<>>] :
                   subs \in {behaviors_histograms_and_complexites(
                                [i \in DOMAIN BehaviorsIn(first.histogram) |->
                                    Registered(graph, BehaviorsIn(first.histogram)[i])],
                                1,
                                lib.behaviors[graph.behavior].name :> first.histogram,
                                <<>>)}}) :
         first \in {hebgraph_histogram_and_complexity(graph, compute_levels(graph).levels)}})

\* One pass of the loop of cumulated_hebgraph_histogram (lines 122-138).
CumulationRound(graph, c) ==
    The({[r EXCEPT !.rounds = @ + 1,
                   !.done = r.error = NoError
                            /\ IteratedEnough(r.histogram, r.behavior_iteration)] :
         r \in {_iterate_cumulation(graph, BehaviorsIn(c.histogram), 1, c)}})

(***************************************************************************)
(* Learning complexity (hebg/metrics/complexity/complexities.py).          *)
(* used_nodes_all is looked up by behavior, previous_used_nodes by node:   *)
(* both are functions of names.                                            *)
(***************************************************************************)
\* A saving that counts every use, the first included.
scomplexity_EveryUse(k, p) == k

\* scomplexity and kcomplexity of learning_complexity (lines 110-111).
scomplexity(k, p) ==
    LET least == IF k < p + k - 1 THEN k ELSE p + k - 1
    IN  IF least > 0 THEN least ELSE 0

kcomplexity(k) == k

CountOf(previous_used_nodes, name) ==
    IF name \in DOMAIN previous_used_nodes THEN previous_used_nodes[name] ELSE 0

\* update_sum_dict(previous_used_nodes, histogram)
AddCounts(previous_used_nodes, histogram) ==
    [n \in DOMAIN previous_used_nodes \cup Keys(histogram) |->
        CountOf(previous_used_nodes, n)
        + (IF HasKey(histogram, n) THEN ValueOf(histogram, n) ELSE 0)]

RECURSIVE general_complexity(_, _, _, _)
RECURSIVE ComplexityNodes(_, _, _, _, _, _, _)

\* The loop of general_complexity over used_nodes_all[behavior].items(), from
\* the i-th entry on.
ComplexityNodes(histogram, i, used_nodes_all, previous_used_nodes, total_complexity, saved_complexity, depth) ==
    IF i > Len(histogram)
    THEN [error |-> NoError, complexity |-> total_complexity - saved_complexity,
          saved |-> saved_complexity]
    ELSE LET node == histogram[i].node
             n_used == histogram[i].n
             n_previous_used == CountOf(previous_used_nodes, node.name)
             known == node.type = "behavior" /\ node.name \in DOMAIN used_nodes_all
             sub == IF known
                    THEN general_complexity(node.name, used_nodes_all,
                                            previous_used_nodes, depth + 1)
                    ELSE [error |-> NoError, complexity |-> node.complexity, saved |-> 0]
         IN  The({IF r.error # NoError THEN r
                  ELSE ComplexityNodes(histogram, i + 1, used_nodes_all,
                           AddCounts(IF known
                                     THEN AddCounts(previous_used_nodes,
                                                    used_nodes_all[node.name])
                                     ELSE previous_used_nodes,
                                     <<[node |-> node, n |-> n_used]>>),
                           total_complexity + r.saved * kcomplexity(n_used)
                               + r.complexity * kcomplexity(n_used),
                           saved_complexity + r.saved * kcomplexity(n_used)
                               + (IF node.type \in {"behavior", "action"}
                                  THEN r.complexity * scomplexity(n_used, n_previous_used)
                                  ELSE 0),
                           depth) :
                  r \in {sub}})

general_complexity(behavior, used_nodes_all, previous_used_nodes, depth) ==
    IF depth > MaxDepth
    THEN [error |-> RecursionError, complexity |-> 0, saved |-> 0]
    ELSE IF behavior \notin DOMAIN used_nodes_all
    THEN [error |-> KeyError, complexity |-> 0, saved |-> 0]
    ELSE ComplexityNodes(used_nodes_all[behavior], 1, used_nodes_all,
                         previous_used_nodes, 0, 0, depth)

learning_complexity(behavior, used_nodes_all, previous_used_nodes) ==
    general_complexity(behavior, used_nodes_all, previous_used_nodes, 1)

\* expected_behavior_histograms of tests/integration/test_paper_basic_example.py
\* (lines 34-62), the histograms test_learning_complexity is given.
expected_behavior_histograms(d) ==
    LET actions == [i \in 0..2 |-> Action(i, "action " \o ToString(i), 1)]
        feature_conditions ==
            [i \in 0..5 |-> FeatureCondition("feature " \o ToString(i), 1)]
        behaviors == [i \in 0..2 |->
                         Behavior("behavior " \o ToString(i), "B" \o ToString(i), d.behavior)]
        use(node, n) == [node |-> node, n |-> n]
    IN  ("behavior 0" :> <<use(actions[0], 1), use(actions[1], 1),
                           use(feature_conditions[0], 1)>>)
     @@ ("behavior 1" :> <<use(actions[0], 1), use(actions[2], 1), use(behaviors[0], 1),
                           use(feature_conditions[1], 1), use(feature_conditions[2], 1)>>)
     @@ ("behavior 2" :> <<use(actions[0], 1), use(behaviors[0], 1), use(behaviors[1], 2),
                           use(feature_conditions[3], 1), use(feature_conditions[4], 1),
                           use(feature_conditions[5], 1)>>)

(***************************************************************************)
(* Requirement graph (hebg/requirements_graph.py).  The graph is a DiGraph *)
(* of Behavior nodes, kept as the container above keeps a graph.           *)
(***************************************************************************)
IndexError == "IndexError: list index out of range"
UnboundLocalError == "UnboundLocalError"

Successors(g, names) ==
    {g.edges[i].v : i \in {j \in DOMAIN g.edges : g.edges[j].u \in names}}

\* networkx.descendants(g, name), given the successors of name: what k more
\* steps along the edges reach.
RECURSIVE Descendants(_, _, _)
Descendants(g, names, k) ==
    IF k = 0 THEN names
    ELSE Descendants(g, names \cup Successors(g, names), k - 1)

DegreeOf(degrees, name) == IF name \in DOMAIN degrees THEN degrees[name] ELSE 0

\* _cut_alternatives_to_empty_node(graph, node, requirement_degree), on the
\* degrees of graph.behavior: one less for each Behavior that follows an
\* alternative in the graph cut of the edges from the alternatives to the
\* successor, counted once for each such alternative.
_cut_alternatives_to_empty_node(graph, node, degrees) ==
    LET successor == successors(graph, node.name)[1]
        empty_index == EdgeIndex(graph, node.name, successor.name)
        alternatives == SelectSeq(predecessors(graph, successor.name),
            LAMBDA alt : EdgeIndex(graph, alt.name, successor.name) = empty_index)
        alt_names == {alternatives[i].name : i \in DOMAIN alternatives}
        cut_graph == [graph EXCEPT !.edges =
                         SelectSeq(@, LAMBDA e : ~(e.u \in alt_names /\ e.v = successor.name))]
        following_behaviors(alt) ==
            {n \in Descendants(cut_graph, Successors(cut_graph, {alt}), Len(graph.nodes)) \ {alt} :
                 NodeNamed(graph, n).type = "behavior"}
        times(n) == Cardinality({i \in DOMAIN alternatives :
                                    n \in following_behaviors(alternatives[i].name)})
        touched == UNION {following_behaviors(a) : a \in alt_names}
    IN  [n \in DOMAIN degrees \cup touched |-> DegreeOf(degrees, n) - times(n)]

\* The first loop of build_requirement_graph on one graph (lines 44-50).
RECURSIVE CutEmptyNodes(_, _, _)
CutEmptyNodes(graph, i, degrees) ==
    IF i > Len(graph.nodes) THEN [error |-> NoError, degrees |-> degrees]
    ELSE IF graph.nodes[i].type # "empty"
    THEN CutEmptyNodes(graph, i + 1, degrees)
    ELSE IF Len(successors(graph, graph.nodes[i].name)) = 0
    THEN [error |-> IndexError, degrees |-> degrees]
    ELSE CutEmptyNodes(graph, i + 1,
                       _cut_alternatives_to_empty_node(graph, graph.nodes[i], degrees))

\* The second loop on one graph (lines 53-58): one more for each Behavior node.
CountBehaviorNodes(graph, degrees) ==
    LET names == {graph.nodes[i].name :
                     i \in {j \in DOMAIN graph.nodes : graph.nodes[j].type = "behavior"}}
    IN  [n \in DOMAIN degrees \cup names |->
            DegreeOf(degrees, n) + (IF n \in names THEN 1 ELSE 0)]

\* requirement_degree after the first two loops: for each graph, by the name
\* of graph.behavior (a later graph of a behavior of the same name starts
\* from an empty dictionary in the first loop and adds to it in the second).
RECURSIVE FirstLoop(_, _, _)
FirstLoop(heb_graphs, i, requirement_degree) ==
    IF i > Len(heb_graphs) THEN [error |-> NoError, requirement_degree |-> requirement_degree]
    ELSE LET graph == heb_graphs[i]
             r == CutEmptyNodes(graph, 1, EmptyDict)
         IN  IF r.error # NoError
             THEN [error |-> r.error, requirement_degree |-> requirement_degree]
             ELSE FirstLoop(heb_graphs, i + 1,
                            (lib.behaviors[graph.behavior].name :> r.degrees)
                                @@ requirement_degree)

RECURSIVE SecondLoop(_, _, _)
SecondLoop(heb_graphs, i, requirement_degree) ==
    IF i > Len(heb_graphs) THEN requirement_degree
    ELSE LET name == lib.behaviors[heb_graphs[i].behavior].name
         IN  SecondLoop(heb_graphs, i + 1,
                        (name :> CountBehaviorNodes(heb_graphs[i], requirement_degree[name]))
                            @@ requirement_degree)

\* A requirement for every node of the graph, whatever it is.
Required_AnyNode(degrees, node) == TRUE

\* Lines 63-67: the node is a Behavior whose degree in the graph is not 0.
Required(degrees, node) == node.type = "behavior" /\ degrees[node.name] # 0

\* The third loop (lines 61-71): the nodes of one graph from the i-th on.
RECURSIVE RequirementEdges(_, _, _, _)
RequirementEdges(graph, i, degrees, requirements_graph) ==
    IF i > Len(graph.nodes) THEN requirements_graph
    ELSE IF ~Required(degrees, graph.nodes[i])
    THEN RequirementEdges(graph, i + 1, degrees, requirements_graph)
    ELSE LET node == graph.nodes[i]
             with_node == add_node(requirements_graph, node)
             index == Len(successors(with_node, node.name)) + 1
         IN  RequirementEdges(graph, i + 1, degrees,
                              add_edge(with_node, node, lib.behaviors[graph.behavior], index))

RECURSIVE ThirdLoop(_, _, _, _)
ThirdLoop(heb_graphs, i, requirement_degree, requirements_graph) ==
    IF i > Len(heb_graphs) THEN requirements_graph
    ELSE ThirdLoop(heb_graphs, i + 1, requirement_degree,
                   The({RequirementEdges(heb_graphs[i], 1,
                            requirement_degree[lib.behaviors[heb_graphs[i].behavior].name], g) :
                        g \in {requirements_graph}}))

\* build_requirement_graph(behaviors): the graph, its levels, or the error.
build_requirement_graph(behaviors) ==
    LET heb_graphs == [i \in DOMAIN behaviors |-> lib.graphs[behaviors[i]]]
        \* the behaviors whose graph cannot be read (line 32), the first decides
        unreadable == {i \in DOMAIN behaviors :
                          \/ ~Buildable(behaviors[i])
                          \/ compute_levels(lib.graphs[behaviors[i]]).error}
        first_unreadable == CHOOSE i \in unreadable : \A j \in unreadable : i <= j
        nodes == add_nodes_from(HEBGraph(NoInst),
                                [i \in DOMAIN behaviors |-> lib.behaviors[behaviors[i]]])
        first == FirstLoop(heb_graphs, 1, EmptyDict)
        requirements_graph == ThirdLoop(heb_graphs, 1,
                                        SecondLoop(heb_graphs, 1, first.requirement_degree),
                                        nodes)
        leveled == compute_levels(requirements_graph)
        failed(error) == [error |-> error, graph |-> HEBGraph(NoInst), levels |-> EmptyDict]
    IN  IF unreadable # {}
        THEN failed(IF Buildable(behaviors[first_unreadable])
                    THEN LevelingError ELSE NotImplementedError)
        ELSE IF first.error # NoError THEN failed(first.error)
        ELSE IF Len(behaviors) = 0 THEN failed(UnboundLocalError)
        ELSE IF leveled.error THEN failed(LevelingError)
        ELSE [error |-> NoError, graph |-> requirements_graph, levels |-> leveled.levels]

(***************************************************************************)
(* Actions.                                                                *)
(***************************************************************************)
Init ==
    /\ \E d \in Defaults : lib \in Libraries(d) \cup {loop_without_alternative(d)}
    /\ observation \in lib.obs
    /\ objects = [_graph |-> [i \in Insts |-> 0],
                  build_calls |-> [i \in Insts |-> 0],
                  level_calls |-> [i \in Insts |-> 0],
                  n_accesses |-> 0,
                  last |-> [inst |-> NoInst, graph |-> 0, error |-> NoError]]
    /\ call_graph = CallGraph
    /\ pc = "idle"
    /\ result = NoAction
    /\ heap = EmptyHeap
    /\ unrolled = NoUnroll
    /\ metrics = NoMetrics
    /\ requirements = NoRequirements

Raise(error) ==
    /\ pc' = "raised"
    /\ result' = error

\* behavior(observation): Behavior.__call__ on the root behavior, then
\* HEBGraph.__call__ with a new CallGraph.
Call ==
    /\ pc = "idle"
    /\ LET r == Behavior_graph(objects, lib.root)
       IN  /\ objects' = r.objects
           /\ IF r.error # NoError
              THEN /\ Raise(r.error)
                   /\ UNCHANGED call_graph
              ELSE /\ call_graph' = HEBGraph_call(
                          add_root(CallGraph, lib.behaviors[lib.root], lib.root),
                          lib.root)
                   /\ pc' = "calling"
                   /\ UNCHANGED result
    /\ UNCHANGED <<lib, observation>>
    /\ UNCHANGED analysis_vars

Popping == pc = "calling" /\ Len(call_graph.frontiere) > 0

\* An empty frontier that ends the call with None instead of an error.
NoFrontiere_ReturnsNone ==
    /\ pc = "calling"
    /\ Len(call_graph.frontiere) = 0
    /\ pc' = "returned"
    /\ result' = NoAction
    /\ UNCHANGED <<lib, observation, objects, call_graph>>
    /\ UNCHANGED analysis_vars

\* The frontier is empty: call_nodes raises.
NoFrontiere ==
    /\ pc = "calling"
    /\ Len(call_graph.frontiere) = 0
    /\ Raise(NoValidFrontiere)
    /\ UNCHANGED <<lib, observation, objects, call_graph>>
    /\ UNCHANGED analysis_vars

\* _pop_from_frontiere drops a looping Behavior and goes on.
PopFailure ==
    /\ Popping
    /\ PopRound(call_graph).failure
    /\ call_graph' = PopRound(call_graph).cg
    /\ UNCHANGED <<lib, observation, objects, pc, result>>
    /\ UNCHANGED analysis_vars

PoppedNode == _heb_node_from_call_node(call_graph, PopRound(call_graph).call_node)
PoppedGraph == call_graph.nodes[PopRound(call_graph).call_node].heb_graph

\* An Action whose value does not end the call while entries are left.
CallAction_KeepsPopping ==
    /\ Popping
    /\ ~PopRound(call_graph).failure
    /\ PoppedNode.type = "action"
    /\ call_graph' = PopRound(call_graph).cg
    /\ pc' = IF Len(PopRound(call_graph).cg.frontiere) = 0 THEN "returned" ELSE "calling"
    /\ result' = PoppedNode.action
    /\ UNCHANGED <<lib, observation, objects>>
    /\ UNCHANGED analysis_vars

\* call_graph.py 68-69: the action ends the loop of call_nodes.
CallAction ==
    /\ Popping
    /\ ~PopRound(call_graph).failure
    /\ PoppedNode.type = "action"
    /\ call_graph' = PopRound(call_graph).cg
    /\ pc' = "returned"
    /\ result' = PoppedNode.action
    /\ UNCHANGED <<lib, observation, objects>>
    /\ UNCHANGED analysis_vars

CallFeatureCondition ==
    /\ Popping
    /\ ~PopRound(call_graph).failure
    /\ PoppedNode.type = "feature_condition"
    /\ LET r == FeatureConditionBranch(PopRound(call_graph).cg, PoppedNode, PoppedGraph,
                                       observation)
       IN  /\ call_graph' = r.cg
           /\ IF r.error # NoError THEN Raise(r.error) ELSE UNCHANGED <<pc, result>>
    /\ UNCHANGED <<lib, observation, objects>>
    /\ UNCHANGED analysis_vars

CallEmpty ==
    /\ Popping
    /\ ~PopRound(call_graph).failure
    /\ PoppedNode.type = "empty"
    /\ call_graph' = EmptyBranch(PopRound(call_graph).cg, PoppedNode, PoppedGraph).cg
    /\ UNCHANGED <<lib, observation, objects, pc, result>>
    /\ UNCHANGED analysis_vars

CallBehavior ==
    /\ Popping
    /\ ~PopRound(call_graph).failure
    /\ PoppedNode.type = "behavior"
    /\ LET r == BehaviorBranch(PopRound(call_graph).cg, objects, PoppedNode, PoppedGraph)
       IN  /\ call_graph' = r.cg
           /\ objects' = r.objects
           /\ IF r.error # NoError THEN Raise(r.error) ELSE UNCHANGED <<pc, result>>
    /\ UNCHANGED <<lib, observation>>
    /\ UNCHANGED analysis_vars

\* A read of behavior.graph by the embedding code, before or after the call.
AccessGraph(inst) ==
    /\ pc \in {"idle", "returned", "raised"}
    /\ objects.n_accesses < MaxAccesses
    /\ LET r == Behavior_graph(objects, inst)
       IN  objects' = [r.objects EXCEPT
                          !.n_accesses = @ + 1,
                          !.last = [inst |-> inst, graph |-> r.graph, error |-> r.error]]
    /\ UNCHANGED <<lib, observation, call_graph, pc, result>>
    /\ UNCHANGED analysis_vars

Next ==
    \/ Call
    \/ NoFrontiere
    \/ PopFailure
    \/ CallAction
    \/ CallFeatureCondition
    \/ CallEmpty
    \/ CallBehavior

Spec == Init /\ [][Next]_vars

\* The libraries whose nodes have the default complexity.
InitDefault ==
    /\ Init
    /\ \A k \in DOMAIN lib.defaults : lib.defaults[k] = DefaultComplexity

\* A call runs to its end: call_nodes is a synchronous loop.
FairSpec == InitDefault /\ [][Next]_vars /\ WF_vars(Next)

NextAccess ==
    \/ Next
    \/ \E inst \in Insts : AccessGraph(inst)

\* The call together with reads of Behavior.graph from outside it.
SpecAccess == InitDefault /\ [][NextAccess]_vars

(***************************************************************************)
(* Behavior.graph read by threads (hebg/behavior.py, lines 48-61).  The    *)
(* property holds no lock: a thread can be suspended between the test of   *)
(* _graph, the call of build_graph, the store, compute_levels and the      *)
(* final read.  objects.threads[t] is the thread's position (at), the      *)
(* instance it reads, the graph its build_graph call returned (built) and  *)
(* the graph it obtained (graph).                                          *)
(***************************************************************************)
Threads == 1 .. MaxThreads

InitThreads ==
    /\ lib \in Libraries(DefaultComplexities)
    /\ observation \in lib.obs
    /\ objects = [_graph |-> [i \in Insts |-> 0],
                  build_calls |-> [i \in Insts |-> 0],
                  level_calls |-> [i \in Insts |-> 0],
                  n_accesses |-> 0,
                  last |-> [inst |-> NoInst, graph |-> 0, error |-> NoError],
                  threads |-> [t \in Threads |->
                                  [at |-> "idle", inst |-> NoInst, built |-> 0,
                                   graph |-> 0, error |-> NoError]]]
    /\ call_graph = CallGraph
    /\ pc = "idle"
    /\ result = NoAction
    /\ heap = EmptyHeap
    /\ unrolled = NoUnroll
    /\ metrics = NoMetrics
    /\ requirements = NoRequirements

ThreadStep(o) ==
    /\ objects' = o
    /\ UNCHANGED <<lib, observation, call_graph, pc, result>>
    /\ UNCHANGED analysis_vars

\* if self._graph is None
ThreadTest(t, inst) ==
    /\ objects.threads[t].at = "idle"
    /\ ThreadStep([objects EXCEPT
           !.threads[t].inst = inst,
           !.threads[t].at = IF objects._graph[inst] = 0 THEN "build" ELSE "return"])

\* self.build_graph()
ThreadBuild(t) ==
    /\ objects.threads[t].at = "build"
    /\ LET inst == objects.threads[t].inst
           built == [objects EXCEPT !.build_calls[inst] = @ + 1]
       IN  ThreadStep(IF ~Buildable(inst)
                      THEN [built EXCEPT !.threads[t].at = "raised",
                                         !.threads[t].error = NotImplementedError]
                      ELSE [built EXCEPT !.threads[t].at = "store",
                                         !.threads[t].built = built.build_calls[inst]])

\* self._graph = (what build_graph returned)
ThreadStore(t) ==
    /\ objects.threads[t].at = "store"
    /\ ThreadStep([objects EXCEPT
           !._graph[objects.threads[t].inst] = objects.threads[t].built,
           !.threads[t].at = "levels"])

\* compute_levels(self._graph)
ThreadLevels(t) ==
    /\ objects.threads[t].at = "levels"
    /\ LET inst == objects.threads[t].inst
           leveled == [objects EXCEPT !.level_calls[inst] = @ + 1]
       IN  ThreadStep(IF compute_levels(lib.graphs[inst]).error
                      THEN [leveled EXCEPT !.threads[t].at = "raised",
                                           !.threads[t].error = LevelingError]
                      ELSE [leveled EXCEPT !.threads[t].at = "return"])

\* return self._graph
ThreadReturn(t) ==
    /\ objects.threads[t].at = "return"
    /\ ThreadStep([objects EXCEPT
           !.threads[t].graph = objects._graph[objects.threads[t].inst],
           !.threads[t].at = "returned"])

NextThreads ==
    \E t \in Threads :
        \/ \E inst \in Insts : ThreadTest(t, inst)
        \/ ThreadBuild(t)
        \/ ThreadStore(t)
        \/ ThreadLevels(t)
        \/ ThreadReturn(t)

SpecThreads == InitThreads /\ [][NextThreads]_vars

(***************************************************************************)
(* Unrolling, as the embedding code calls it.                              *)
(***************************************************************************)
InitUnroll ==
    /\ lib \in UnrollLibraries
    /\ observation = Number(0)
    /\ objects = [_graph |-> [i \in Insts |-> 0],
                  build_calls |-> [i \in Insts |-> 0],
                  level_calls |-> [i \in Insts |-> 0],
                  n_accesses |-> 0,
                  last |-> [inst |-> NoInst, graph |-> 0, error |-> NoError]]
    /\ call_graph = CallGraph
    /\ pc = "idle"
    /\ result = NoAction
    /\ heap = EmptyHeap
    /\ unrolled = NoUnroll
    /\ metrics = NoMetrics
    /\ requirements = NoRequirements

\* unroll_graph(behavior.graph, add_prefix, cut_looping_alternatives) on the
\* root behavior of the library.
Unroll(add_prefix, cut_looping_alternatives) ==
    /\ unrolled.n_calls < MaxUnrolls
    /\ LET g == Behavior_graph_object(heap, lib.root)
           r == unroll_graph(g.heap, g.graph, add_prefix, cut_looping_alternatives)
       IN  IF g.error # NoError
           THEN /\ heap' = g.heap
                /\ unrolled' = [n_calls |-> unrolled.n_calls + 1, input |-> None,
                                add_prefix |-> add_prefix,
                                cut_looping_alternatives |-> cut_looping_alternatives,
                                graph |-> None, is_looping |-> FALSE,
                                error |-> g.error]
           ELSE /\ heap' = r.heap
                /\ unrolled' = [n_calls |-> unrolled.n_calls + 1, input |-> g.graph,
                                add_prefix |-> add_prefix,
                                cut_looping_alternatives |-> cut_looping_alternatives,
                                graph |-> r.graph, is_looping |-> r.is_looping,
                                error |-> r.error]
    /\ UNCHANGED lib
    /\ UNCHANGED call_vars
    /\ UNCHANGED <<metrics, requirements>>

\* unroll_graph on the graph the previous call returned.
UnrollAgain(add_prefix, cut_looping_alternatives) ==
    /\ unrolled.n_calls < MaxUnrolls
    /\ unrolled.graph # None
    /\ LET r == unroll_graph(heap, unrolled.graph, add_prefix, cut_looping_alternatives)
       IN  /\ heap' = r.heap
           /\ unrolled' = [n_calls |-> unrolled.n_calls + 1, input |-> unrolled.graph,
                           add_prefix |-> add_prefix,
                           cut_looping_alternatives |-> cut_looping_alternatives,
                           graph |-> r.graph, is_looping |-> r.is_looping,
                           error |-> r.error]
    /\ UNCHANGED lib
    /\ UNCHANGED call_vars
    /\ UNCHANGED <<metrics, requirements>>

NextUnroll ==
    \/ \E add_prefix, cut_looping_alternatives \in BOOLEAN :
           Unroll(add_prefix, cut_looping_alternatives)
    \/ \E add_prefix, cut_looping_alternatives \in BOOLEAN :
           UnrollAgain(add_prefix, cut_looping_alternatives)

SpecUnroll == InitUnroll /\ [][NextUnroll]_vars


(***************************************************************************)
(* Histograms and complexities, as the embedding code asks for them.       *)
(***************************************************************************)
\* No evaluation call and no unrolling in the runs that follow.
NothingElse ==
    /\ observation = Number(0)
    /\ objects = [_graph |-> [i \in Insts |-> 0],
                  build_calls |-> [i \in Insts |-> 0],
                  level_calls |-> [i \in Insts |-> 0],
                  n_accesses |-> 0,
                  last |-> [inst |-> NoInst, graph |-> 0, error |-> NoError]]
    /\ call_graph = CallGraph
    /\ pc = "idle"
    /\ result = NoAction
    /\ heap = EmptyHeap
    /\ unrolled = NoUnroll

\* The elements of a set, one after the other.
RECURSIVE SeqOf(_)
SeqOf(S) ==
    IF S = {} THEN <<>>
    ELSE LET x == CHOOSE y \in S : TRUE IN <<x>> \o SeqOf(S \ {x})

\* The Behavior objects the embedding code holds: those of the test for the
\* report example, all of them otherwise.
Listable ==
    IF lib.name = "report_example" THEN {"B0", "B1", "B2"} ELSE Insts

\* The lists of at most n of them, none twice.
RECURSIVE ListsOf(_, _)
ListsOf(S, n) ==
    IF n = 0 THEN {<<>>}
    ELSE {<<>>} \cup UNION {{<<x>> \o l : l \in {m \in ListsOf(S, n - 1) :
                                                    \A i \in DOMAIN m : m[i] # x}} :
                            x \in S}

InitMetrics ==
    /\ lib \in MetricsLibraries
    /\ NothingElse
    /\ metrics = [NoMetrics EXCEPT !.behaviors =
                     IF lib.name = "report_example" THEN <<"B0", "B1", "B2">>
                     ELSE SeqOf(Insts)]
    /\ requirements = NoRequirements

\* behaviors_histograms_and_complexites(behaviors)
BehaviorsHistograms ==
    /\ ~metrics.called
    /\ LET r == behaviors_histograms_and_complexites(metrics.behaviors, 1, <<>>, <<>>)
       IN  metrics' = [metrics EXCEPT
               !.called = TRUE, !.error = r.error,
               !.histograms = IF r.error = NoError THEN r.histograms ELSE <<>>,
               !.complexities = IF r.error = NoError THEN r.complexities ELSE <<>>]
    /\ UNCHANGED <<lib, heap, unrolled, requirements>>
    /\ UNCHANGED call_vars

Learned(behavior, expected, previous, r) ==
    [n_calls |-> metrics.learning.n_calls + 1, behavior |-> behavior,
     expected |-> expected, previous |-> previous,
     error |-> r.error, complexity |-> r.complexity, saved |-> r.saved]

\* learning_complexity(behavior, used_nodes_all, previous_used_nodes) on the
\* histograms computed, previous_used_nodes being None or the histogram of
\* one of the behaviors.
LearningComplexity(behavior, previous) ==
    /\ metrics.called /\ metrics.error = NoError
    /\ metrics.learning.n_calls < MaxLearnings
    /\ behavior \in DOMAIN metrics.histograms
    /\ previous \in {<<>>} \cup {AddCounts(<<>>, metrics.histograms[b]) :
                                    b \in DOMAIN metrics.histograms}
    /\ metrics' = [metrics EXCEPT !.learning =
           Learned(behavior, FALSE, previous,
                   learning_complexity(behavior, metrics.histograms, previous))]
    /\ UNCHANGED <<lib, heap, unrolled, requirements>>
    /\ UNCHANGED call_vars

\* learning_complexity(behavior, used_nodes_all=self.expected_behavior_histograms)
\* (test_learning_complexity).
ExpectedLearningComplexity(behavior) ==
    /\ lib.name = "report_example"
    /\ metrics.learning.n_calls < MaxLearnings
    /\ behavior \in DOMAIN expected_behavior_histograms(lib.defaults)
    /\ metrics' = [metrics EXCEPT !.learning =
           Learned(behavior, TRUE, <<>>,
                   learning_complexity(behavior,
                       expected_behavior_histograms(lib.defaults), <<>>))]
    /\ UNCHANGED <<lib, heap, unrolled, requirements>>
    /\ UNCHANGED call_vars

BehaviorNames == {lib.behaviors[i].name : i \in Insts}

NextMetrics ==
    \/ BehaviorsHistograms
    \/ \E behavior \in BehaviorNames :
          \E previous \in {<<>>} \cup {AddCounts(<<>>, metrics.histograms[b]) :
                                          b \in DOMAIN metrics.histograms} :
              LearningComplexity(behavior, previous)
    \/ \E behavior \in BehaviorNames : ExpectedLearningComplexity(behavior)

SpecMetrics == InitMetrics /\ [][NextMetrics]_vars

(***************************************************************************)
(* The cumulated histogram of the graph of one behavior of a library.      *)
(***************************************************************************)
InitCumulation ==
    /\ lib \in MetricsLibraries \cup {loop_without_alternative(d) : d \in Defaults}
    /\ NothingElse
    /\ metrics = NoMetrics
    /\ requirements = NoRequirements

\* cumulated_hebgraph_histogram(behavior.graph) up to its loop; behavior.graph
\* raises when the graph cannot be leveled.
CumulatedHistogram(inst) ==
    /\ ~metrics.cumulation.called
    /\ Buildable(inst)
    /\ metrics' = [metrics EXCEPT
           !.behaviors = <<inst>>,
           !.cumulation =
               IF compute_levels(lib.graphs[inst]).error
               THEN [NoCumulation EXCEPT !.called = TRUE, !.error = LevelingError]
               ELSE CumulationStart(lib.graphs[inst])]
    /\ UNCHANGED <<lib, heap, unrolled, requirements>>
    /\ UNCHANGED call_vars

\* One pass of "while not done"; the passes are counted up to MaxRounds.
IterateCumulation ==
    /\ metrics.cumulation.called
    /\ metrics.cumulation.error = NoError
    /\ ~metrics.cumulation.done
    /\ metrics.cumulation.rounds < MaxRounds
    /\ metrics' = [metrics EXCEPT !.cumulation =
           CumulationRound(lib.graphs[metrics.behaviors[1]], @)]
    /\ UNCHANGED <<lib, heap, unrolled, requirements>>
    /\ UNCHANGED call_vars

NextCumulation ==
    \/ \E inst \in Insts : CumulatedHistogram(inst)
    \/ IterateCumulation

SpecCumulation == InitCumulation /\ [][NextCumulation]_vars

\* The loop runs on as long as it is not done.
FairSpecCumulation == SpecCumulation /\ WF_vars(IterateCumulation)

(***************************************************************************)
(* The requirement graph, as the embedding code asks for it.               *)
(***************************************************************************)
InitRequirements ==
    /\ lib \in RequirementLibraries
    /\ NothingElse
    /\ metrics = NoMetrics
    /\ requirements \in {[NoRequirements EXCEPT !.behaviors = l] :
                            l \in ListsOf(Listable, MaxListed)}

\* build_requirement_graph(behaviors)
BuildRequirementGraph ==
    /\ ~requirements.called
    /\ LET r == build_requirement_graph(requirements.behaviors)
       IN  requirements' = [requirements EXCEPT
               !.called = TRUE, !.error = r.error, !.graph = r.graph,
               !.levels = r.levels]
    /\ UNCHANGED <<lib, heap, unrolled, metrics>>
    /\ UNCHANGED call_vars

NextRequirements == BuildRequirementGraph

SpecRequirements == InitRequirements /\ [][NextRequirements]_vars


(***************************************************************************)
(* Properties.                                                             *)
(***************************************************************************)
Done == pc \in {"returned", "raised"}

\* The status of the edge that leads to a call node.
StatusOf(cg, call_node) ==
    cg.edges[<<CHOOSE p \in cg_predecessors(cg, call_node) : TRUE, call_node>>]

\* The call nodes below the root of the call graph.
Entries(cg) == {c \in DOMAIN cg.nodes : cg_predecessors(cg, c) # {}}

Children(cg, call_node) == {e[2] : e \in {e \in DOMAIN cg.edges : e[1] = call_node}}

\* The entry a step takes out of the frontier, if it takes one.
Popped(c) ==
    /\ c \in Range(call_graph.frontiere)
    /\ c \notin Range(call_graph'.frontiere)

\* The call nodes a step adds to the call graph.
NewNodes == DOMAIN call_graph'.nodes \ DOMAIN call_graph.nodes

ComplexityOf(cg, c) == _heb_node_from_call_node(cg, c).complexity

\* The call nodes of the back-reference 'Get new axe' met in the graph of
\* 'Gather wood'.
BackReferences ==
    {c \in Entries(call_graph) :
        /\ call_graph.nodes[c].label = "Get new axe"
        /\ call_graph.nodes[c].heb_graph = "GatherWood"}

C1_Case ==
    /\ lib.name = "loop_with_alternative"
    /\ lib.root = "GetNewAxe"
    /\ observation = Items({})

C2_PopsCheapestFirst ==
    [][\A c \in Range(call_graph.frontiere) :
          Popped(c) =>
              \A o \in Range(call_graph.frontiere) :
                  /\ ComplexityOf(call_graph, c) <= ComplexityOf(call_graph, o)
                  /\ (ComplexityOf(call_graph, c) = ComplexityOf(call_graph, o)
                        => call_graph.nodes[c].inserted <= call_graph.nodes[o].inserted)]_vars

\* An entry was called while an entry of the same complexity, inserted later
\* by the same parent, and a dearer entry of lower rank were left waiting.
C2_Witness ==
    \E c \in Entries(call_graph), o, t \in Range(call_graph.frontiere) :
        /\ StatusOf(call_graph, c) = CALLED
        /\ cg_predecessors(call_graph, c) = cg_predecessors(call_graph, o)
        /\ ComplexityOf(call_graph, c) = ComplexityOf(call_graph, o)
        /\ call_graph.nodes[c].inserted < call_graph.nodes[o].inserted
        /\ Rank(t) < Rank(c)
        /\ ComplexityOf(call_graph, t) > ComplexityOf(call_graph, c)


C3_Case == lib.name \in {"self_loop", "mutual_loop"}

\* C3: a call of a behavior whose only path leads back to a behavior under
\* evaluation never returns an action and ends with the error of the empty
\* frontier.
C3_LoopWithoutAlternative ==
    /\ [](C3_Case => pc # "returned")
    /\ (C3_Case ~> (pc = "raised" /\ result = NoValidFrontiere))

C3_Witness ==
    /\ C3_Case
    /\ pc = "raised"
    /\ result = NoValidFrontiere
    /\ \E c \in Entries(call_graph) : StatusOf(call_graph, c) = FAILURE

\* The entry c is taken out of the frontier and called, and its node has
\* the given type.
CalledAs(c, type) ==
    /\ Popped(c)
    /\ StatusOf(call_graph', c) = CALLED
    /\ _heb_node_from_call_node(call_graph, c).type = type

\* The names of the successors of the node of c, in its graph, on the edges
\* of the index its condition gives on the observation.
MatchingSuccessors(c) ==
    LET node == _heb_node_from_call_node(call_graph, c)
        graph == lib.graphs[call_graph.nodes[c].heb_graph]
    IN  {e.v : e \in {e \in Range(graph.edges) :
            e.u = node.name /\ e.index = FeatureConditionCall(node, observation)}}

AllSuccessors(c) ==
    LET node == _heb_node_from_call_node(call_graph, c)
        graph == lib.graphs[call_graph.nodes[c].heb_graph]
    IN  {e.v : e \in {e \in Range(graph.edges) : e.u = node.name}}

\* The step adds one call node for each of the names, below c and in the
\* frontier, and no other call node.
Registers(c, names) ==
    /\ {call_graph'.nodes[n].label : n \in NewNodes} = names
    /\ Cardinality(NewNodes) = Cardinality(names)
    /\ \A n \in NewNodes :
          /\ cg_predecessors(call_graph', n) = {c}
          /\ n \in Range(call_graph'.frontiere)

\* C4: the step that calls a FeatureCondition whose index has edges adds to
\* the call graph and to the frontier exactly the successors on the edges of
\* that index; F_A gives action 1 on 1 and action 0 on -1.
C4_MatchingSuccessorsOnly ==
    /\ [][\A c \in Range(call_graph.frontiere) :
             (CalledAs(c, "feature_condition") /\ MatchingSuccessors(c) # {})
                 => Registers(c, MatchingSuccessors(c))]_vars
    /\ []((lib.name = "F_A" /\ Done) =>
             /\ pc = "returned"
             /\ observation.x = 1 => result = "1"
             /\ observation.x = 0 - 1 => result = "0")

C4_Witness ==
    /\ lib.name = "F_A"
    /\ observation.x = 1
    /\ pc = "returned"
    /\ result = "1"
    /\ {call_graph.nodes[c].label : c \in Entries(call_graph)}
          = {"Greater or equal to 0 ?", "action 1"}

\* C5 as stated: the F_F_A fixture maps -2 to action 2, -1 to action 3, 1 to
\* action 0 and 2 to action 1.
C5_AsStated ==
    (lib.name \in {"F_F_A_Option", "F_F_A"} /\ Done) =>
        /\ pc = "returned"
        /\ observation.x = 0 - 2 => result = "2"
        /\ observation.x = 0 - 1 => result = "3"
        /\ observation.x = 1 => result = "0"
        /\ observation.x = 2 => result = "1"

\* C5: the F_F_A fixture of the integration test maps -2 to action 2, -1 to
\* action 3, 1 to action 1 and 2 to action 0; the fixture of the behavior
\* examples, wired the other way round, maps them to 0, 1, 2 and 3.
C5_ChainedConditions ==
    /\ (lib.name = "F_F_A_Option" /\ Done) =>
          /\ pc = "returned"
          /\ observation.x = 0 - 2 => result = "2"
          /\ observation.x = 0 - 1 => result = "3"
          /\ observation.x = 1 => result = "1"
          /\ observation.x = 2 => result = "0"
    /\ (lib.name = "F_F_A" /\ Done) =>
          /\ pc = "returned"
          /\ observation.x = 0 - 2 => result = "0"
          /\ observation.x = 0 - 1 => result = "1"
          /\ observation.x = 1 => result = "2"
          /\ observation.x = 2 => result = "3"

C5_Witness ==
    /\ lib.name = "F_F_A_Option"
    /\ observation.x = 1
    /\ pc = "returned"
    /\ result = "1"
    /\ call_graph.n_calls = 3

Unresolved(c) ==
    LET node == _heb_node_from_call_node(call_graph, c)
    IN  /\ ~Buildable(node.inst)
        /\ node.name \notin DOMAIN lib.graphs[call_graph.nodes[c].heb_graph].all_behaviors

\* C7: the step that calls a Behavior node without graph of its own and
\* without registry entry ends the call with the error of build_graph, which
\* is not the error of the empty frontier, whatever waits in the frontier.
C7_UnresolvedBehaviorIsFatal ==
    [][\A c \in Range(call_graph.frontiere) :
          (CalledAs(c, "behavior") /\ Unresolved(c)) =>
              /\ pc' = "raised"
              /\ result' = NotImplementedError
              /\ result' # NoValidFrontiere
              /\ NewNodes = {}]_vars

C7_Witness ==
    /\ lib.name = "unresolved"
    /\ pc = "raised"
    /\ result = NotImplementedError
    /\ Len(call_graph.frontiere) > 0
    /\ \E c \in Entries(call_graph) :
          /\ call_graph.nodes[c].label = "Missing"
          /\ StatusOf(call_graph, c) = CALLED

\* C8: the step that calls a FeatureCondition whose index has no edge ends
\* the call with the invalid index error and adds nothing to the call graph,
\* whatever waits in the frontier.
C8_InvalidIndexIsFatal ==
    [][\A c \in Range(call_graph.frontiere) :
          (CalledAs(c, "feature_condition") /\ MatchingSuccessors(c) = {}) =>
              /\ pc' = "raised"
              /\ result' = InvalidIndex
              /\ NewNodes = {}]_vars

C8_Witness ==
    /\ lib.name = "invalid_index"
    /\ pc = "raised"
    /\ result = InvalidIndex
    /\ Len(call_graph.frontiere) > 0
    /\ call_graph.n_calls = 1

\* The Behavior node of call node c as its graph holds it, before any lookup.
MetNode(c) ==
    NodeNamed(lib.graphs[call_graph.nodes[c].heb_graph], call_graph.nodes[c].label)

\* The instance the claim resolves a Behavior node to: the node itself when
\* it can build its graph, else the registry entry of its name.
OwnGraphFirst(node, heb_graph) ==
    IF Buildable(node.inst) THEN node.inst
    ELSE lib.graphs[heb_graph].all_behaviors[node.name]

\* C9 as stated: the call nodes below a called Behavior node come from the
\* node's own graph when it can be built, and from the graph of the registry
\* entry of its name only when it cannot.
C9_OwnGraphFirst ==
    \A c \in Entries(call_graph) :
        (/\ _heb_node_from_call_node(call_graph, c).type = "behavior"
         /\ StatusOf(call_graph, c) = CALLED
         /\ Children(call_graph, c) # {})
            => \A k \in Children(call_graph, c) :
                  call_graph.nodes[k].heb_graph
                      = OwnGraphFirst(MetNode(c), call_graph.nodes[c].heb_graph)

\* A Behavior node that can build its graph, and whose name is in the
\* registry, was called.
C9_Witness ==
    \E c \in Entries(call_graph) :
        /\ _heb_node_from_call_node(call_graph, c).type = "behavior"
        /\ StatusOf(call_graph, c) = CALLED
        /\ Children(call_graph, c) # {}
        /\ Buildable(MetNode(c).inst)
        /\ MetNode(c).name \in
              DOMAIN lib.graphs[call_graph.nodes[c].heb_graph].all_behaviors

NodeNames(g) == {g.nodes[i].name : i \in DOMAIN g.nodes}
IndexedEdges(g) == {<<g.edges[i].u, g.edges[i].v, g.edges[i].index>> : i \in DOMAIN g.edges}
PlainEdges(g) == {<<g.edges[i].u, g.edges[i].v>> : i \in DOMAIN g.edges}

\* The same node names, the same edges and the same edge indices.
SameGraph(g, h) == NodeNames(g) = NodeNames(h) /\ IndexedEdges(g) = IndexedEdges(h)

\* This step is a call of unroll_graph.
UnrollCall == unrolled'.n_calls = unrolled.n_calls + 1

\* The graph objects that exist before the call keep their contents, and a
\* Behavior whose graph the call builds owns what its build_graph returned.
GraphsUntouched ==
    /\ \A s \in DOMAIN heap.stores : SameGraph(heap'.stores[s], heap.stores[s])
    /\ \A i \in Insts :
          heap.graph_of[i] = 0 /\ heap'.graph_of[i] # 0
              => SameGraph(heap'.stores[heap'.graph_of[i]], lib.graphs[i])

\* C11 (as stated): a call of unroll_graph, for any combination of add_prefix
\* and cut_looping_alternatives, leaves the input graph and the own graph of
\* every nested behavior with the node names, edges and edge indices they had
\* before the call.
C11_UnrollIsPure == [][UnrollCall => GraphsUntouched]_vars

\* An unroll of the loop fixture with add_prefix has renamed the nodes of the
\* cached graph of GetNewAxe, which the call met as a nested behavior.
C11_Witness ==
    /\ lib.name = "loop" /\ lib.root = "GatherWood"
    /\ unrolled.n_calls = 1 /\ unrolled.add_prefix /\ ~unrolled.cut_looping_alternatives
    /\ unrolled.error = NoError
    /\ heap.graph_of["GetNewAxe"] # 0
    /\ ~SameGraph(heap.stores[heap.graph_of["GetNewAxe"]], lib.graphs["GetNewAxe"])

\* The graph given to the call of this step, as it is before the call (the
\* graph of the root behavior is what build_graph returns when the call is
\* the first to read it), and the graph the call returns.
InputGraph ==
    IF unrolled'.input.store \in DOMAIN heap.stores
    THEN Contents(heap, unrolled'.input)
    ELSE lib.graphs[unrolled'.input.behavior]

OutputGraph == Contents(heap', unrolled'.graph)

\* The call of this step was given a graph (the read of behavior.graph that
\* makes its argument did not raise), and it returned one.
UnrollGiven == UnrollCall /\ unrolled'.input # None
UnrollReturns == UnrollGiven /\ unrolled'.error = NoError

\* A Behavior node that unrolling can expand: the behavior it stands for
\* (by name reference, else the node itself) builds a graph, and is not the
\* behavior the graph belongs to.
Expandable(node, graph) ==
    /\ node.type = "behavior"
    /\ Buildable(NameReference(node, graph).inst)
    /\ node.name # lib.behaviors[graph.behavior].name

NoExpandableNode(graph) ==
    \A i \in DOMAIN graph.nodes : ~Expandable(graph.nodes[i], graph)

\* The call of this step is given the graph the previous call returned, with
\* the arguments of the previous call.
SameCallAgain ==
    /\ UnrollGiven
    /\ unrolled.graph # None /\ unrolled'.input = unrolled.graph
    /\ unrolled'.add_prefix = unrolled.add_prefix
    /\ unrolled'.cut_looping_alternatives = unrolled.cut_looping_alternatives

\* C12 (as stated): unrolling a graph that contains no expandable Behavior
\* node yields a graph isomorphic to its input, whatever the arguments, and
\* the result of a previous unroll is such a graph: unrolling it again with
\* the same arguments yields it again.
C12_AsStated ==
    [][/\ UnrollGiven /\ NoExpandableNode(InputGraph)
              => unrolled'.error = NoError /\ SameGraph(OutputGraph, InputGraph)
       /\ SameCallAgain
              => unrolled'.error = NoError /\ SameGraph(OutputGraph, InputGraph)]_vars

\* C12: unrolling, with cut_looping_alternatives unset, a graph that contains
\* no expandable Behavior node returns a graph with the nodes, edges and
\* indices of its input (the identity is the isomorphism).
C12_UnrollFixpoint ==
    [][UnrollGiven /\ NoExpandableNode(InputGraph)
          /\ ~unrolled'.cut_looping_alternatives
              => unrolled'.error = NoError /\ SameGraph(OutputGraph, InputGraph)]_vars

\* The unrolled graph of GatherWood, which keeps the looping reference
\* 'Gather wood' as a leaf, has been unrolled again and came back as it was.
C12_Witness ==
    /\ lib.name = "loop" /\ lib.root = "GatherWood"
    /\ unrolled.n_calls = 2 /\ unrolled.error = NoError
    /\ ~unrolled.add_prefix /\ ~unrolled.cut_looping_alternatives
    /\ unrolled.input.store = 3
    /\ NoExpandableNode(Contents(heap, unrolled.input))
    /\ "Gather wood" \in NodeNames(Contents(heap, unrolled.graph))
    /\ SameGraph(Contents(heap, unrolled.graph), Contents(heap, unrolled.input))

(***************************************************************************)
(* Unrolling of behaviors that refer to each other in a loop.              *)
(***************************************************************************)
\* No path of edges leads from a node back to itself.
Acyclic(g) ==
    \A n \in NodeNames(g) :
        n \notin Descendants(g, Successors(g, {n}), Len(g.nodes))

\* The Behavior nodes left in a graph that have no successor.
BehaviorLeaves(g) ==
    {g.nodes[i].name : i \in {j \in DOMAIN g.nodes :
         g.nodes[j].type = "behavior" /\ Successors(g, {g.nodes[j].name}) = {}}}

\* The first unroll of a library, given the graph of its root behavior with
\* cut_looping_alternatives unset.
UnrollUncut == UnrollGiven /\ unrolled.n_calls = 0 /\ ~unrolled'.cut_looping_alternatives

\* C13 (as stated): with cut_looping_alternatives unset, unrolling behaviors
\* that refer to each other terminates; when a reference to a behavior whose
\* unrolling is in progress was met, the result keeps a Behavior leaf for it;
\* and no such reference becomes an edge back to an earlier node: the result
\* of unrolling graphs without cycle has no cycle.
C13_LoopingReferenceStaysLeaf ==
    [][UnrollUncut
          => /\ unrolled'.error # RecursionError
             /\ unrolled'.error = NoError
                  => /\ unrolled'.is_looping => BehaviorLeaves(OutputGraph) # {}
                     /\ Acyclic(OutputGraph)]_vars

\* Outer refers to Ping, Ping to Pong and Pong back to Ping.  The unroll of
\* Outer without prefix met the looping reference 'Ping' and returned a graph
\* that holds no Behavior node and the edge 'pong ?' -> 'ping ?', which
\* closes a cycle.
C13_Witness ==
    /\ lib.name = "outer_loop"
    /\ unrolled.n_calls = 1 /\ unrolled.error = NoError
    /\ ~unrolled.add_prefix /\ ~unrolled.cut_looping_alternatives
    /\ unrolled.is_looping
    /\ BehaviorLeaves(Contents(heap, unrolled.graph)) = {}
    /\ <<"pong ?", "ping ?">> \in PlainEdges(Contents(heap, unrolled.graph))
    /\ ~Acyclic(Contents(heap, unrolled.graph))

(***************************************************************************)
(* Unrolling with cut_looping_alternatives.                                *)
(***************************************************************************)
CutsMade == {heap'.cuts[i] : i \in DOMAIN heap'.cuts}

\* A cut re-attaches every edge that led to the node cut, with its index, to
\* every alternative of the nearest enclosing branch point, to nothing else,
\* and leaves no edge to the node.
CutToSiblings(c) ==
    /\ c.alternatives = c.enclosing
    /\ \A e \in c.in_edges : \A t \in c.enclosing : <<e[1], t, e[2]>> \in c.edges
    /\ \A e \in c.edges : e[1] # c.node /\ e[2] # c.node

\* C14 (as stated): with cut_looping_alternatives set, the call returns, and
\* every looping Behavior node that has a sibling alternative at the nearest
\* enclosing branch point is removed, the edges that led to it re-attached
\* with their index to every such sibling; the result holds no node of the
\* name of a node cut.
C14_CutReattachesToSiblings ==
    [][UnrollGiven /\ unrolled.n_calls = 0 /\ unrolled'.cut_looping_alternatives
          => /\ unrolled'.error = NoError
             /\ \A c \in CutsMade :
                   c.enclosing # {}
                       => CutToSiblings(c) /\ c.node \notin NodeNames(OutputGraph)]_vars

\* Root leads to Task beside the action 'instead'; Task leads on index 0 to
\* Step beside the action 'beside', and on index 1 to Root alone.  The
\* looping reference 'Root' was cut: its edge was re-attached to 'beside',
\* the alternative of Step, and not to 'instead', the alternative of Task in
\* the enclosing graph.
C14_Witness ==
    /\ lib.name = "second_branch"
    /\ unrolled.n_calls = 1 /\ unrolled.error = NoError
    /\ unrolled.cut_looping_alternatives /\ ~unrolled.add_prefix
    /\ Len(heap.cuts) = 1
    /\ heap.cuts[1].node = "Root"
    /\ heap.cuts[1].in_edges = {<<"task ?", 1>>}
    /\ heap.cuts[1].enclosing = {"action instead"}
    /\ heap.cuts[1].alternatives = {"action beside"}
    /\ <<"task ?", "action beside", 1>> \in IndexedEdges(Contents(heap, unrolled.graph))
    /\ <<"task ?", "action beside", 0>> \notin IndexedEdges(Contents(heap, unrolled.graph))
    /\ <<"task ?", "action instead">> \notin PlainEdges(Contents(heap, unrolled.graph))

(***************************************************************************)
(* Unrolling with add_prefix.                                              *)
(***************************************************************************)
\* The names the nodes of the graph of a behavior take when every Behavior
\* node that stands for a behavior with a graph is replaced by the nodes of
\* that graph, named in the same way and, when they are more than one, each
\* with the name of the behavior and the separator in front.  A reference to
\* a behavior of the set path, those being replaced, stays as it is.
RECURSIVE PrefixedNames(_, _)
PrefixedNames(inst, path) ==
    LET graph == lib.graphs[inst]
        inlined(node) ==
            LET behavior == NameReference(node, graph)
                names == PrefixedNames(behavior.inst, path \cup {behavior.name})
            IN  IF node.type # "behavior" \/ behavior.name \in path
                   \/ ~Buildable(behavior.inst)
                THEN {node.name}
                ELSE IF Cardinality(names) > 1
                THEN {behavior.name \o BEHAVIOR_SEPARATOR \o n : n \in names}
                ELSE names
    IN  UNION {inlined(graph.nodes[i]) : i \in DOMAIN graph.nodes}

\* The first unroll of a library, given the graph of its root behavior with
\* add_prefix set and cut_looping_alternatives unset, has returned.
UnrollPrefixed ==
    /\ UnrollReturns /\ unrolled.n_calls = 0
    /\ unrolled'.add_prefix /\ ~unrolled'.cut_looping_alternatives

\* C15 (as stated): with add_prefix set, the nodes of the result are named
\* by the chain of the behaviors they are inlined through, each behavior
\* name once for each level of nesting, followed by their original name.
C15_PrefixOncePerLevel ==
    [][UnrollPrefixed
          => NodeNames(OutputGraph)
                 = PrefixedNames(lib.root, {lib.behaviors[lib.root].name})]_vars

\* The unroll of Behavior2 with add_prefix: Behavior0 is inlined through
\* Behavior1 and used directly.  The nodes of the direct use carry the prefix
\* twice.
C15_Witness ==
    /\ lib.name = "report_example" /\ lib.root = "B2"
    /\ unrolled.n_calls = 1 /\ unrolled.error = NoError
    /\ unrolled.add_prefix /\ ~unrolled.cut_looping_alternatives
    /\ "behavior 1>behavior 0>feature 0" \in NodeNames(Contents(heap, unrolled.graph))
    /\ "behavior 0>behavior 0>feature 0" \in NodeNames(Contents(heap, unrolled.graph))
    /\ "behavior 0>feature 0" \notin NodeNames(Contents(heap, unrolled.graph))
    /\ "behavior 0>feature 0" \in PrefixedNames("B2", {"behavior 2"})

(***************************************************************************)
(* Histograms: what the bottom-up computation gives each node.             *)
(***************************************************************************)
\* The counts of a histogram, by name, over a set of names.
CountsOver(names, histogram) ==
    [n \in names |-> IF HasKey(histogram, n) THEN ValueOf(histogram, n) ELSE 0]

SumOfCounts(c1, c2) == [n \in DOMAIN c1 |-> c1[n] + c2[n]]

\* The successors of a node by index, as sets of names.
IndexGroups(graph, name) ==
    {{e.v : e \in {x \in Range(out_edges(graph, name)) : x.index = index}} :
        index \in {e.index : e \in Range(out_edges(graph, name))}}

LeastOf(S) == CHOOSE x \in S : \A y \in S : x <= y

RECURSIVE SumOfLeast(_, _)
SumOfLeast(complexities, groups) ==
    IF groups = {} THEN 0
    ELSE LET group == CHOOSE g \in groups : TRUE
         IN  Plus(LeastOf({complexities[n] : n \in group}),
                  SumOfLeast(complexities, groups \ {group}))

\* The merges of counts with the histogram of one cheapest successor of each
\* group.
RECURSIVE MergedWithCheapest(_, _, _, _)
MergedWithCheapest(names, r, groups, merged) ==
    IF groups = {} THEN merged
    ELSE LET group == CHOOSE g \in groups : TRUE
             least == LeastOf({r.complexities[n] : n \in group})
         IN  MergedWithCheapest(names, r, groups \ {group},
                 {SumOfCounts(c, CountsOver(names, r.nodes_used_nodes[n])) :
                     c \in merged, n \in {m \in group : r.complexities[m] = least}})

\* What the computation gave the nodes of a graph is bottom-up: for each node
\* its own contribution and that of one cheapest successor for each index.
BottomUp(graph) ==
    LET r == nodes_histograms_and_complexities(graph, compute_levels(graph).levels)
        names == NodeNames(graph)
        own(n) == _get_node_histogram_complexity(NodeNamed(graph, n),
                                                 {lib.behaviors[graph.behavior].name})
    IN  \A n \in names :
            /\ r.complexities[n]
                   = Plus(own(n).complexity, SumOfLeast(r.complexities, IndexGroups(graph, n)))
            /\ CountsOver(names, r.nodes_used_nodes[n])
                   \in MergedWithCheapest(names, r, IndexGroups(graph, n),
                                          {CountsOver(names, own(n).histogram)})

\* The histograms of test_histograms for Behavior0, Behavior1 and Behavior2.
ReportHistograms ==
    LET all == {"action 0", "action 1", "action 2", "behavior 0", "behavior 1",
                "behavior 2", "feature 0", "feature 1", "feature 2", "feature 3",
                "feature 4", "feature 5"}
        counts(ones, twos) ==
            [n \in all |-> IF n \in ones THEN 1 ELSE IF n \in twos THEN 2 ELSE 0]
    IN  /\ CountsOver(all, metrics.histograms["behavior 0"])
               = counts({"action 0", "action 1", "feature 0"}, {})
        /\ CountsOver(all, metrics.histograms["behavior 1"])
               = counts({"action 0", "action 2", "behavior 0", "feature 1", "feature 2"}, {})
        /\ CountsOver(all, metrics.histograms["behavior 2"])
               = counts({"action 0", "behavior 0", "feature 3", "feature 4", "feature 5"},
                        {"behavior 1"})

HistogramsReturned == metrics.called /\ metrics.error = NoError

\* C16 (as stated): in the histograms computed, each node's complexity is
\* its own contribution plus, for every index group of its outgoing edges,
\* the complexity of one minimum-complexity successor of the group, and its
\* histogram merges its own entry with the histograms of those successors;
\* the report example gives the histograms of the test.
C16_BottomUpHistograms ==
    HistogramsReturned
        => /\ \A i \in Range(metrics.behaviors) :
                  Buildable(i) => BottomUp(lib.graphs[i])
           /\ lib.name = "report_example" => ReportHistograms

\* 'shared ?' is reached on index 0 from 'first ?' (level 0) and from
\* 'second ?' (level 1), so it is given level 1 and comes after 'second ?'
\* in the computation.  With every complexity 1, 'second ?' got complexity 3
\* where 'shared ?' alone has 3, and the histogram of the root counts the
\* actions under 'shared ?' once although 'shared ?' is counted twice.
C16_Witness ==
    /\ lib.name = "shared_successor" /\ lib.defaults = DefaultComplexities
    /\ HistogramsReturned
    /\ metrics.complexities["shared_successor"] = 7
    /\ ValueOf(metrics.histograms["shared_successor"], "shared ?") = 2
    /\ ValueOf(metrics.histograms["shared_successor"], "action left") = 1
    /\ ~BottomUp(lib.graphs["shared_successor"])

(***************************************************************************)
(* Learning complexity.                                                    *)
(***************************************************************************)
MaxOf2(a, b) == IF a > b THEN a ELSE b
MinOf2(a, b) == IF a < b THEN a ELSE b

\* A histogram none of whose nodes has a histogram of its own.
Flat(histogram, used_nodes_all) ==
    \A i \in DOMAIN histogram :
        ~(histogram[i].node.type = "behavior"
          /\ histogram[i].node.name \in DOMAIN used_nodes_all)

\* The raw summed complexity of a flat histogram.
RECURSIVE RawComplexity(_, _)
RawComplexity(histogram, i) ==
    IF i > Len(histogram) THEN 0
    ELSE histogram[i].n * histogram[i].node.complexity + RawComplexity(histogram, i + 1)

\* What the Behavior and Action nodes of a flat histogram save, with k uses
\* here and p uses before.
RECURSIVE SavedComplexity(_, _, _)
SavedComplexity(histogram, previous, i) ==
    IF i > Len(histogram) THEN 0
    ELSE LET k == histogram[i].n
             p == CountOf(previous, histogram[i].node.name)
         IN  (IF histogram[i].node.type \in {"behavior", "action"}
              THEN MaxOf2(0, MinOf2(k, p + k - 1)) * histogram[i].node.complexity
              ELSE 0)
             + SavedComplexity(histogram, previous, i + 1)

LearningReturned == metrics.learning.n_calls > 0 /\ metrics.learning.error = NoError

\* C17: learning_complexity on the reference histograms of Behavior0,
\* Behavior1 and Behavior2 returns (3, 0), (6, 1) and (9, 12); on a histogram
\* without nested behaviors, a Behavior or Action node with k uses and p
\* earlier uses saves max(0, min(k, p + k - 1)) times its complexity, and the
\* learning complexity is the raw summed complexity minus what is saved.
C17_LearningComplexity ==
    LET l == metrics.learning
    IN  LearningReturned =>
          /\ l.expected =>
                <<l.complexity, l.saved>> =
                    CASE l.behavior = "behavior 0" -> <<3, 0>>
                      [] l.behavior = "behavior 1" -> <<6, 1>>
                      [] l.behavior = "behavior 2" -> <<9, 12>>
          /\ ~l.expected /\ Flat(metrics.histograms[l.behavior], metrics.histograms) =>
                /\ l.saved = SavedComplexity(metrics.histograms[l.behavior], l.previous, 1)
                /\ l.complexity = RawComplexity(metrics.histograms[l.behavior], 1) - l.saved

\* Behavior2 on the reference histograms: 9 to learn, 12 saved.
C17_Witness ==
    /\ LearningReturned
    /\ metrics.learning.expected
    /\ metrics.learning.behavior = "behavior 2"
    /\ metrics.learning.complexity = 9
    /\ metrics.learning.saved = 12

\* A flat histogram learnt after uses of its nodes: something is saved.
C17_WitnessFlat ==
    /\ LearningReturned
    /\ ~metrics.learning.expected
    /\ Flat(metrics.histograms[metrics.learning.behavior], metrics.histograms)
    /\ metrics.learning.previous # <<>>
    /\ metrics.learning.saved > 0

(***************************************************************************)
(* The requirement graph.                                                  *)
(***************************************************************************)
RequirementsReturned == requirements.called /\ requirements.error = NoError

Listed == Range(requirements.behaviors)

NoEmptyNode ==
    \A i \in Listed : \A j \in DOMAIN lib.graphs[i].nodes :
        lib.graphs[i].nodes[j].type # "empty"

\* The Behavior nodes in the graphs of the listed behaviors: <<R, D>> for a
\* Behavior node R in the graph of D.
BehaviorNodesOfListed ==
    UNION {{<<lib.graphs[i].nodes[j].name, lib.behaviors[i].name>> :
               j \in {k \in DOMAIN lib.graphs[i].nodes :
                         lib.graphs[i].nodes[k].type = "behavior"}} :
           i \in Listed}

\* C18: for listed behaviors whose graphs hold no Empty node, the graph
\* returned has an edge R -> D exactly when R is a Behavior node in the graph
\* of the listed behavior D; for Behavior0, Behavior1 and Behavior2 the edges
\* are B0 -> B1, B0 -> B2 and B1 -> B2 and no others.
C18_RequirementEdges ==
    RequirementsReturned /\ NoEmptyNode =>
        /\ PlainEdges(requirements.graph) = BehaviorNodesOfListed
        /\ lib.name = "report_example" /\ Listed = {"B0", "B1", "B2"} =>
              PlainEdges(requirements.graph)
                  = {<<"behavior 0", "behavior 1">>, <<"behavior 0", "behavior 2">>,
                     <<"behavior 1", "behavior 2">>}

\* The three behaviors of the report listed as the test lists them.
C18_Witness ==
    /\ RequirementsReturned
    /\ lib.name = "report_example"
    /\ requirements.behaviors = <<"B0", "B1", "B2">>
    /\ Cardinality(PlainEdges(requirements.graph)) = 3

\* The direct requirements of a node of the requirement graph.
DirectRequirements(g, name) == {e[1] : e \in {x \in PlainEdges(g) : x[2] = name}}

GreatestOf(S) == CHOOSE x \in S : \A y \in S : y <= x

\* C19 (as stated): in every requirement graph returned, a node without
\* incoming requirement edge has level 0 and every other node has level one
\* more than the greatest level among its direct requirements.
C19_RequirementLevels ==
    RequirementsReturned =>
        \A n \in NodeNames(requirements.graph) :
            LET direct == DirectRequirements(requirements.graph, n)
            IN  requirements.levels[n] =
                    IF direct = {} THEN 0
                    ELSE 1 + GreatestOf({requirements.levels[r] : r \in direct})

\* The behaviors of the report listed as Behavior2, Behavior1, Behavior0:
\* both requirement edges into Behavior2 carry index 1, and Behavior2 is given
\* level 1, the level of its requirement Behavior1.
C19_Witness ==
    /\ RequirementsReturned
    /\ lib.name = "report_example"
    /\ requirements.behaviors = <<"B2", "B1", "B0">>
    /\ {<<"behavior 0", "behavior 2", 1>>, <<"behavior 1", "behavior 2", 1>>}
           \subseteq IndexedEdges(requirements.graph)
    /\ requirements.levels["behavior 0"] = 0
    /\ requirements.levels["behavior 1"] = 1
    /\ requirements.levels["behavior 2"] = 1

\* Listed as the test lists them, the levels are 0, 1 and 2.
C19_TestLevels ==
    /\ RequirementsReturned
    /\ lib.name = "report_example"
    /\ requirements.behaviors = <<"B0", "B1", "B2">>
    /\ requirements.levels["behavior 0"] = 0
    /\ requirements.levels["behavior 1"] = 1
    /\ requirements.levels["behavior 2"] = 2

\* Two behaviors that require each other.
RequireEachOther(g) ==
    \E a, b \in NodeNames(g) : <<a, b>> \in PlainEdges(g) /\ <<b, a>> \in PlainEdges(g)

\* C20 (as stated): every requirement graph returned is acyclic; behaviors
\* whose requirements form a cycle are rejected with the leveling error.
C20_RequirementGraphAcyclic ==
    RequirementsReturned => Acyclic(requirements.graph)

\* ReachForest and ReachMeadow of the loop-without-alternative example are
\* listed: each requires the other and both require 'Reach other zone', which
\* has no requirement edge of its own; 'Reach forest' gets its level from
\* there, 'Reach meadow' from 'Reach forest', and the graph is returned with
\* the cycle between the two.
C20_Witness ==
    /\ RequirementsReturned
    /\ lib.name = "loop_without_alternative"
    /\ requirements.behaviors = <<"ReachForest", "ReachMeadow">>
    /\ {<<"Reach forest", "Reach meadow">>, <<"Reach meadow", "Reach forest">>}
           \subseteq PlainEdges(requirements.graph)
    /\ ~Acyclic(requirements.graph)

\* The same with every behavior listed: Alpha requires Beta and Gamma, Beta
\* requires Alpha, Gamma requires nothing.
C20_WitnessAllListed ==
    /\ RequirementsReturned
    /\ lib.name = "requirement_loop"
    /\ requirements.behaviors = <<"Alpha", "Beta", "Gamma">>
    /\ RequireEachOther(requirements.graph)
    /\ ~Acyclic(requirements.graph)

\* Behaviors that require each other and nothing else are rejected.
C20_Rejected ==
    /\ requirements.called
    /\ requirements.error = LevelingError
    /\ lib.name = "loop"
    /\ Len(requirements.behaviors) = 2

(***************************************************************************)
(* Requirement degrees.                                                    *)
(***************************************************************************)
\* The alternatives cut for an Empty node of a graph: the predecessors of its
\* first successor on the index of the edge from the Empty node.
CutAlternatives(graph, empty) ==
    LET successor == successors(graph, empty)[1].name
        empty_index == EdgeIndex(graph, empty, successor)
    IN  {e.u : e \in {x \in Range(graph.edges) :
                         x.v = successor /\ x.index = empty_index}}

\* What is reached from an alternative once the edges from the alternatives
\* to the successor are cut.
ReachedAfterCut(graph, empty, alt) ==
    LET successor == successors(graph, empty)[1].name
        alts == CutAlternatives(graph, empty)
        kept == {e \in Range(graph.edges) : ~(e.u \in alts /\ e.v = successor)}
        step(S) == S \cup {e.v : e \in {x \in kept : x.u \in S}}
        reach[k \in 0..Len(graph.nodes)] ==
            IF k = 0 THEN {e.v : e \in {x \in kept : x.u = alt}} ELSE step(reach[k - 1])
    IN  reach[Len(graph.nodes)]

\* The final requirement degree of a Behavior node in a graph: 1 for its
\* occurrence, 1 less for each cut alternative of an Empty node from which it
\* is reached.
FinalDegree(graph, name) ==
    LET empties == {graph.nodes[i].name :
                       i \in {j \in DOMAIN graph.nodes : graph.nodes[j].type = "empty"}}
        cuts == UNION {{<<e, alt>> : alt \in {a \in CutAlternatives(graph, e) :
                                                name \in ReachedAfterCut(graph, e, a)}} :
                       e \in empties}
    IN  1 - Cardinality(cuts)

\* The graph of the listed behavior of a name.
ListedGraph(name) == lib.graphs[CHOOSE i \in Listed : lib.behaviors[i].name = name]

\* C21 (as stated): the requirement graph has an edge R -> D only when the
\* final requirement degree of R in the graph of D is strictly positive; a
\* degree of zero or a negative degree yields no edge.
C21_PositiveDegreeOnly ==
    RequirementsReturned =>
        \A e \in PlainEdges(requirements.graph) : FinalDegree(ListedGraph(e[2]), e[1]) > 0

\* 'Twice' follows both cut alternatives 'one ?' and 'two ?': its degree is
\* 1 - 2 = -1, and the edge Twice -> Cut is in the graph returned; 'Once', of
\* degree 0, has none, 'Kept', of degree 1, has one.
C21_Witness ==
    /\ RequirementsReturned
    /\ lib.name = "cut_requirements"
    /\ requirements.behaviors = <<"Cut">>
    /\ FinalDegree(lib.graphs["Cut"], "Twice") = -1
    /\ FinalDegree(lib.graphs["Cut"], "Once") = 0
    /\ FinalDegree(lib.graphs["Cut"], "Kept") = 1
    /\ <<"Twice", "Cut">> \in PlainEdges(requirements.graph)
    /\ <<"Once", "Cut">> \notin PlainEdges(requirements.graph)
    /\ <<"Kept", "Cut">> \in PlainEdges(requirements.graph)

(***************************************************************************)
(* Levels.                                                                 *)
(***************************************************************************)
\* The levels of the predecessors of a node, one set for each index of its
\* incoming edges.
PredecessorLevelsByIndex(g, levels, name) ==
    LET ins == {e \in Range(g.edges) : e.v = name}
    IN  {{levels[e.u] : e \in {x \in ins : x.index = index}} :
            index \in {e.index : e \in ins}}

\* 0 without predecessor, else 1 + the greatest, over the indexes of the
\* incoming edges, of the least level among the predecessors on that index.
LevelAsStated(g, levels, name) ==
    LET groups == PredecessorLevelsByIndex(g, levels, name)
    IN  IF groups = {} THEN 0
        ELSE 1 + GreatestOf({LeastOf(group) : group \in groups})

\* C22 (as stated): whenever compute_levels returns without error, every
\* node without predecessors has level 0 and every other node has level 1 +
\* the maximum, over the index groups of its incoming edges, of the minimum
\* level among the predecessors of the group, whatever the order in which
\* nodes and edges were inserted.
C22_LevelsAsStated ==
    RequirementsReturned =>
        \A n \in NodeNames(requirements.graph) :
            requirements.levels[n] = LevelAsStated(requirements.graph, requirements.levels, n)

\* First, Second, Third are listed in this order and Late is added to the
\* graph after them: when Third is given its level, Second has level 1 and
\* Late has none yet, so Third gets 2; Late then gets 0, every node has a
\* level and the levels are returned, although both edges into Third carry
\* index 1 and the least level among its predecessors is 0.
C22_Witness ==
    /\ RequirementsReturned
    /\ lib.name = "late_requirement"
    /\ requirements.behaviors = <<"First", "Second", "Third">>
    /\ {<<"Second", "Third", 1>>, <<"Late", "Third", 1>>}
           \subseteq IndexedEdges(requirements.graph)
    /\ requirements.levels["Second"] = 1
    /\ requirements.levels["Late"] = 0
    /\ requirements.levels["Third"] = 2
    /\ LevelAsStated(requirements.graph, requirements.levels, "Third") = 1


(***************************************************************************)
(* C23: the cumulated histogram of a library with mutually recursive       *)
(* behaviors.                                                              *)
(***************************************************************************)
\* The recorded usage count of a behavior of the histogram is above the
\* number of times it was expanded.
UsedMoreThanIterated(c) ==
    \E i \in DOMAIN BehaviorsIn(c.histogram) :
        ValueOf(c.histogram, BehaviorsIn(c.histogram)[i].name)
            > IterationOf(c.behavior_iteration, BehaviorsIn(c.histogram)[i].name)

C23_NoPassEndsIt ==
    [][(lib.name = "loop_without_alternative" /\ metrics'.cumulation.rounds >= 1)
          => /\ ~metrics'.cumulation.done
             /\ metrics'.cumulation.error = NoError
             /\ UsedMoreThanIterated(metrics'.cumulation)
             /\ metrics.cumulation.rounds >= 1
                    => \E i \in DOMAIN metrics.cumulation.histogram :
                           metrics'.cumulation.histogram[i].n
                               > metrics.cumulation.histogram[i].n]_vars

\* A library without recursion: the loop ends, counts and expansions equal.
C23_WitnessDone ==
    /\ metrics.cumulation.done
    /\ metrics.cumulation.rounds > 0
    /\ ~UsedMoreThanIterated(metrics.cumulation)
    /\ Len(BehaviorsIn(metrics.cumulation.histogram)) > 0



(***************************************************************************)
(* C24: the graph of a Behavior read by two threads.                       *)
(***************************************************************************)
\* Both threads have read the graph of instance inst and obtained one.
BothReturned(inst) ==
    \A t \in Threads : /\ objects.threads[t].at = "returned"
                       /\ objects.threads[t].inst = inst

\* C24: when two threads access the graph of the same not-yet-built
\* Behavior instance concurrently, under every interleaving build_graph
\* runs exactly once and both threads obtain the same graph object.
C24_BuiltOnce ==
    \A inst \in Insts :
        BothReturned(inst)
            => /\ objects.build_calls[inst] = 1
               /\ \A t, u \in Threads :
                      objects.threads[t].graph = objects.threads[u].graph

\* Both threads found _graph None: build_graph ran twice and the threads
\* hold different graph objects.
C24_Witness ==
    \E inst \in Insts :
        /\ BothReturned(inst)
        /\ objects.build_calls[inst] = 2
        /\ objects.threads[1].graph # objects.threads[2].graph

\* The second thread read after the first had stored: one build, one object.
C24_WitnessSerial ==
    \E inst \in Insts :
        /\ BothReturned(inst)
        /\ objects.build_calls[inst] = 1
        /\ objects.threads[1].graph = objects.threads[2].graph
        /\ objects.threads[1].graph # 0



(***************************************************************************)
(* C25: the action a call returns.                                         *)
(***************************************************************************)
\* The Action entries of the call graph whose edge is Called.
CalledActions(cg) ==
    {c \in Entries(cg) : /\ _heb_node_from_call_node(cg, c).type = "action"
                         /\ StatusOf(cg, c) = CALLED}

\* The entries of the call graph that hold the Action of a given value.
ActionEntries(cg, action) ==
    {c \in Entries(cg) : /\ _heb_node_from_call_node(cg, c).type = "action"
                         /\ _heb_node_from_call_node(cg, c).action = action}

C25_WitnessSplit ==
    /\ pc = "returned"
    /\ lib.name = "F_AA"
    /\ observation = Number(0 - 1)
    /\ result = "EXPECTED"
    /\ \E c \in ActionEntries(call_graph, "FORBIDDEN") :
           StatusOf(call_graph, c) = UNEXPLORED



(***************************************************************************)
(* C26: the call graph is a tree of (branch, rank) pairs.                  *)
(***************************************************************************)
\* No insertion has met a call node already there, the root has no parent
\* and every other call node has one parent, of the rank before its own.
TraceIsTree(cg) ==
    /\ Cardinality(DOMAIN cg.nodes) = cg.n_inserted + 1
    /\ cg_predecessors(cg, CallNode(0, 0)) = {}
    /\ \A c \in DOMAIN cg.nodes \ {CallNode(0, 0)} :
           /\ Cardinality(cg_predecessors(cg, c)) = 1
           /\ \A p \in cg_predecessors(cg, c) : Rank(c) = Rank(p) + 1

\* Of the candidates a step registers, the first inserted is on the branch
\* of its parent and each other one on a branch no call node was on before
\* and no other candidate is on.
BranchesOfBatch ==
    LET batch == NewNodes \ {CallNode(0, 0)}
    IN  \A c \in batch :
            LET first == \A d \in batch :
                             call_graph'.nodes[c].inserted <= call_graph'.nodes[d].inserted
            IN  /\ first
                    => \A p \in cg_predecessors(call_graph', c) : Branch(c) = Branch(p)
                /\ ~first
                    => /\ Branch(c) > call_graph.n_branches
                       /\ \A d \in DOMAIN call_graph.nodes : Branch(d) # Branch(c)
                       /\ \A d \in batch \ {c} : Branch(d) # Branch(c)

\* C26: in every reachable state of a call the trace nodes are pairwise
\* distinct (branch, rank) pairs, each candidate has the rank of its parent
\* plus one, the first candidate of a batch inherits the branch of its parent
\* and every later one gets a branch id never used before, and every trace
\* node but the root (0, 0) has exactly one parent.
C26_TraceIsTree ==
    [][/\ call_graph'.nodes # EmptyFcn => TraceIsTree(call_graph')
       /\ BranchesOfBatch]_vars

\* A call graph with a batch of several candidates below an entry that is
\* not the root, on three branches at least.
C26_Witness ==
    /\ pc = "calling"
    /\ call_graph.n_branches >= 2
    /\ \E c \in Entries(call_graph) :
           /\ Cardinality(Children(call_graph, c)) >= 2
           /\ \E d \in Children(call_graph, c) : Branch(d) = Branch(c)
           /\ \E d \in Children(call_graph, c) : Branch(d) # Branch(c)



(***************************************************************************)
(* C27: a condition is evaluated once per call.                            *)
(***************************************************************************)
\* The successors of the node of c on the edges of the index recorded for
\* its name.
RecordedSuccessors(c) ==
    LET node == _heb_node_from_call_node(call_graph, c)
        graph == lib.graphs[call_graph.nodes[c].heb_graph]
    IN  {e.v : e \in {e \in Range(graph.edges) :
            e.u = node.name /\ e.index = call_graph.known_fc[node.name]}}

\* The step calls a condition whose name has an index recorded.
CalledAgain(c) ==
    /\ CalledAs(c, "feature_condition")
    /\ call_graph.nodes[c].label \in DOMAIN call_graph.known_fc

\* C27: within one call each FeatureCondition, identified by its name, is
\* evaluated on the observation at most once: the conditions evaluated are
\* those with a recorded index, each evaluated once, and a later pop of a
\* condition of the same name, nested behaviors included, evaluates nothing
\* and registers the successors on the index recorded.
C27_EvaluatedOnce ==
    [][/\ DOMAIN call_graph'.fc_calls = DOMAIN call_graph'.known_fc
       /\ \A name \in DOMAIN call_graph'.fc_calls : call_graph'.fc_calls[name] = 1
       /\ \A c \in Range(call_graph.frontiere) :
              CalledAgain(c)
                  => /\ call_graph'.fc_calls = call_graph.fc_calls
                     /\ call_graph'.known_fc = call_graph.known_fc
                     /\ pc' # "raised" => Registers(c, RecordedSuccessors(c))]_vars

\* The fixture of test_multiple_call_to_same_fc has returned EXPECTED: two
\* call nodes of the condition were called, the condition evaluated once.
C27_Witness ==
    /\ pc = "returned"
    /\ lib.name = "multiple_call_to_same_fc"
    /\ result = "EXPECTED"
    /\ call_graph.fc_calls = ("Greater or equal to 0 ?" :> 1)
    /\ Cardinality({c \in Entries(call_graph) :
           /\ call_graph.nodes[c].label = "Greater or equal to 0 ?"
           /\ StatusOf(call_graph, c) = CALLED}) = 2



(***************************************************************************)
(* C28: a condition whose candidates have all failed.                      *)
(***************************************************************************)
\* The condition of entry c was called, candidates were registered below it
\* and the edge to each of them is Failure.
AllCandidatesFailed(cg, c) ==
    /\ _heb_node_from_call_node(cg, c).type = "feature_condition"
    /\ Children(cg, c) # {}
    /\ \A d \in Children(cg, c) : StatusOf(cg, d) = FAILURE

\* C28: when every candidate registered below a popped FeatureCondition has
\* failed, the trace edge into that FeatureCondition is marked Failure (it
\* does not stay Called) by the time the call ends, the search going on with
\* the rest of the frontier meanwhile.
C28_FailedConditionMarked ==
    Done => \A c \in Entries(call_graph) :
                AllCandidatesFailed(call_graph, c) => StatusOf(call_graph, c) = FAILURE

\* In 'Reach forest' the only candidate of 'Is in forest ?', met in 'Reach
\* other zone', has failed; the edge into the condition is Called and the
\* search goes on with the entries left.
C28_Witness ==
    /\ lib.name = "loop_without_alternative"
    /\ pc = "calling"
    /\ Len(call_graph.frontiere) > 0
    /\ \E c \in Entries(call_graph) :
           /\ call_graph.nodes[c].label = "Is in forest ?"
           /\ AllCandidatesFailed(call_graph, c)
           /\ StatusOf(call_graph, c) = CALLED

\* The call has ended, the edge into the condition still Called.
C28_WitnessDone ==
    /\ Done
    /\ \E c \in Entries(call_graph) :
           /\ AllCandidatesFailed(call_graph, c)
           /\ StatusOf(call_graph, c) = CALLED



(***************************************************************************)
(* C29: successors are computed before the nodes that read them.           *)
(***************************************************************************)
\* The place of a node in the order nodes_histograms_and_complexities
\* computes the nodes of a graph in.
PlaceOf(graph, name) ==
    LET levels == compute_levels(graph).levels
        order == DeepestFirst(graph, levels, graph_depth(graph, levels))
    IN  CHOOSE i \in DOMAIN order : order[i].name = name

\* Every successor is computed before the node it follows.
SuccessorsFirst(graph) ==
    \A i \in DOMAIN graph.edges :
        PlaceOf(graph, graph.edges[i].v) < PlaceOf(graph, graph.edges[i].u)

\* C29: for every graph the leveling accepts, the histogram computation has
\* finished the histogram and complexity of every successor of a node before
\* it reads them for that node: for every edge u -> v, v is computed before u.
C29_SuccessorsFinalisedFirst ==
    HistogramsReturned
        => \A i \in Range(metrics.behaviors) :
               (Buildable(i) /\ ~compute_levels(lib.graphs[i]).error)
                   => SuccessorsFirst(lib.graphs[i])

\* The histograms of shared_successor were returned: 'second ?' was computed
\* before its successor 'shared ?', which has the same level.
C29_Witness ==
    /\ lib.name = "shared_successor"
    /\ HistogramsReturned
    /\ "shared_successor" \in Range(metrics.behaviors)
    /\ LET graph == lib.graphs["shared_successor"]
           levels == compute_levels(graph).levels
       IN  /\ levels["second ?"] = levels["shared ?"]
           /\ PlaceOf(graph, "second ?") < PlaceOf(graph, "shared ?")
           /\ \E i \in DOMAIN graph.edges :
                  graph.edges[i].u = "second ?" /\ graph.edges[i].v = "shared ?"

\* The report example: every successor was computed first.
C29_WitnessInOrder ==
    /\ lib.name = "report_example"
    /\ HistogramsReturned
    /\ \A i \in Range(metrics.behaviors) : SuccessorsFirst(lib.graphs[i])



(***************************************************************************)
(* C30: the status of the edges of the call graph.                         *)
(***************************************************************************)
\* The entries on the way from the root to a call node, itself included.
RootPath(cg, call_node) == (ancestors(cg, call_node) \cup {call_node}) \ {CallNode(0, 0)}

\* C30: in every reachable state of a call, a trace node is in the frontier
\* exactly when its incoming edge is Unexplored; an edge is Failure only if
\* it leads to a Behavior node whose name is that of one of its trace
\* ancestors; and when the call has returned an action, every edge on the
\* path from the root to the trace node of the returned Action is Called.
C30_EdgeStatus ==
    /\ \A c \in Entries(call_graph) :
           c \in Range(call_graph.frontiere) <=> StatusOf(call_graph, c) = UNEXPLORED
    /\ \A c \in Entries(call_graph) :
           StatusOf(call_graph, c) = FAILURE
               => /\ _heb_node_from_call_node(call_graph, c).type = "behavior"
                  /\ \E a \in ancestors(call_graph, c) :
                         call_graph.nodes[a].label = call_graph.nodes[c].label
    /\ pc = "returned"
           => /\ _heb_node_from_call_node(call_graph, call_graph.current_node).type = "action"
              /\ \A c \in RootPath(call_graph, call_graph.current_node) :
                     StatusOf(call_graph, c) = CALLED

\* A call has returned an action found three edges below the root at least,
\* with a Failure edge and an Unexplored edge in the call graph.
C30_Witness ==
    /\ pc = "returned"
    /\ Cardinality(RootPath(call_graph, call_graph.current_node)) >= 3
    /\ \E c \in Entries(call_graph) : StatusOf(call_graph, c) = FAILURE
    /\ \E c \in Entries(call_graph) : StatusOf(call_graph, c) = UNEXPLORED


====
